---- MODULE Spec2Model ----
(***************************************************************************)
(* The lazy remote-blob reader of fs/remote/blob.go: ReadAt and Cache over *)
(* a chunk grid, the per-chunk cache probe, the single-flight fetchRange,  *)
(* fetchRegions with its cache writers and destination-offset writers, and *)
(* the shared-result copy-out with its retry.                              *)
(*                                                                         *)
(* Goroutines are the task slots 1..NumTasks.  A ReadAt or a single-window *)
(* Cache runs in one slot; a fan-out Cache runs one slot per window.       *)
(* Bytes are naturals; the blob's byte at offset i is BlobByte(i), and a   *)
(* fresh destination buffer holds NoByte everywhere.                       *)
(***************************************************************************)
EXTENDS Integers, Sequences, FiniteSets, TLC

\* ------------------------------------------------------------------ bounds
NumTasks == 2       \* goroutine slots
MaxBlobSize == 4    \* largest blob size of the sequential scenarios
MaxLen == 3         \* longest buffer / Cache size of the sequential scenarios
MaxRepeat == 1      \* how many times a finished call may be repeated
MaxEvict == 1       \* how many cache entries the cache backend may drop
MaxTime == 2        \* the clock stops advancing here
MaxClose == 2       \* how many times the clients call Close
MaxRetryEvict == 2  \* cache entries dropped while a waiter re-reads the cache
IntBits == 6        \* the width given to int64, scaled down

Tasks == 1..NumTasks

\* make([]byte, n): a fresh buffer is zeroed.
NoByte == 0

\* The blob's content, the digits of sampleData1 onward: '0' is 48.
BlobByte(i) == 48 + i

\* ------------------------------------------------------------------ errors
\* An error is the chain of its wrappings, outermost first; nil is the empty one.
Nil == <<>>

\* io.EOF
EOF == <<"EOF">>

\* A bug to compare with: the cause handed on unwrapped.
ErrorfUnwrapped(msg, err) == err

\* fmt.Errorf("msg: %w", err)
Errorf(msg, err) == <<msg>> \o err

ErrClosed == <<"blob is already closed">>

ErrAlign == <<"region must be aligned by chunk size">>

ErrUnfetched == <<"failed to fetch region">>

\* What the fetcher, the multipart reader and the cache report.
ErrFetch == <<"fetch failed">>

ErrMultipart == <<"broken multipart response">>

ErrCacheMiss == <<"cache miss">>

ErrSize == <<"invalid size of new blob">>

\* What fr.check, the resolver and the cache's Close report.
ErrCheck == <<"check failed">>

ErrResolve == <<"resolve failed">>

ErrCacheClose == <<"cache close failed">>

Min(a, b) == IF a < b THEN a ELSE b
Max(a, b) == IF a > b THEN a ELSE b

\* ------------------------------------------------------- region arithmetic
\* Go's integer division truncates toward zero.
GoDiv(n, u) == IF n >= 0 THEN n \div u ELSE -((-n) \div u)

\* Go's remainder has the sign of the dividend.
GoMod(n, u) == n - GoDiv(n, u) * u

\* The largest int64 and, in Wrap, what Go's signed arithmetic keeps of a
\* result: its low bits, read in two's complement.
MaxInt64 == 2^(IntBits - 1) - 1

Wrap(x) == ((x + 2^(IntBits - 1)) % 2^IntBits) - 2^(IntBits - 1)

floor(n, unit) == Wrap(GoDiv(n, unit) * unit)

ceil(n, unit) == Wrap(Wrap(GoDiv(n, unit) + 1) * unit)

positive(n) == IF n < 0 THEN 0 ELSE n

Region(b, e) == [b |-> b, e |-> e]

RegSize(reg) == reg.e - reg.b + 1

\* The bytes of the blob over a region, as the server holds them.
BlobBytes(reg) == [i \in 1..RegSize(reg) |-> BlobByte(reg.b + i - 1)]

RECURSIVE WalkFromUnclamped(_, _, _, _)
\* A bug to compare with: the last chunk not clamped to the end of the blob.
WalkFromUnclamped(i, e, size, chunkSize) ==
    IF i <= e /\ i < size
    THEN <<Region(i, i + chunkSize - 1)>> \o WalkFromUnclamped(i + chunkSize, e, size, chunkSize)
    ELSE <<>>

RECURSIVE WalkFrom(_, _, _, _)
\* walkChunks' loop from i on: the chunks it hands to walkFn while none fails.
WalkFrom(i, e, size, chunkSize) ==
    IF i <= e /\ i < size
    THEN <<Region(i, IF i + chunkSize - 1 >= size THEN size - 1 ELSE i + chunkSize - 1)>>
         \o WalkFrom(i + chunkSize, e, size, chunkSize)
    ELSE <<>>

\* walkChunks: the chunks handed to walkFn, in order, or the alignment error.
walkChunks(allRegion, size, chunkSize) ==
    IF GoMod(allRegion.b, chunkSize) # 0
    THEN [err |-> ErrAlign, chunks |-> <<>>]
    ELSE [err |-> Nil, chunks |-> WalkFrom(allRegion.b, allRegion.e, size, chunkSize)]

\* The error of a walkFn that fails.
ErrWalkFn == <<"walkFn failed">>

\* walkChunks with a walkFn that fails at its failAt-th call (never, if 0): the
\* chunks walkFn was called on, in order, and the error walkChunks returns.
walkChunksFn(allRegion, size, chunkSize, failAt) ==
    LET w == walkChunks(allRegion, size, chunkSize)
    IN  IF w.err # Nil THEN [err |-> w.err, called |-> <<>>]
        ELSE IF failAt > 0 /\ failAt <= Len(w.chunks)
        THEN [err |-> ErrWalkFn, called |-> SubSeq(w.chunks, 1, failAt)]
        ELSE [err |-> Nil, called |-> w.chunks]

\* The chunk-aligned region ReadAt and cacheAt build for [offset, offset+size).
alignedRegion(offset, size, chunkSize) ==
    Region(floor(offset, chunkSize), ceil(offset + size - 1, chunkSize) - 1)

\* ------------------------------------------------------------- makeSyncKey
\* Strings are sequences of character codes: '[' 91, ',' 44, ']' 93, '0' 48.
RECURSIVE Digits(_)
Digits(n) == IF n < 10 THEN <<48 + n>> ELSE Digits(n \div 10) \o <<48 + (n % 10)>>

RegionString(reg) == <<91>> \o Digits(reg.b) \o <<44>> \o Digits(reg.e) \o <<93>>

RECURSIVE StrLess(_, _)
StrLess(s, t) ==
    IF s = <<>> THEN t # <<>>
    ELSE IF t = <<>> THEN FALSE
    ELSE IF Head(s) # Head(t) THEN Head(s) < Head(t)
    ELSE StrLess(Tail(s), Tail(t))

RECURSIVE SortStrings(_)
SortStrings(S) ==
    IF S = {} THEN <<>>
    ELSE LET m == CHOOSE s \in S : \A t \in S \ {s} : StrLess(s, t)
         IN  <<m>> \o SortStrings(S \ {m})

RECURSIVE Join(_, _)
Join(strs, sep) ==
    IF strs = <<>> THEN <<>>
    ELSE IF Len(strs) = 1 THEN Head(strs)
    ELSE Head(strs) \o sep \o Join(Tail(strs), sep)

makeSyncKey(allData) ==
    Join(SortStrings({RegionString(reg) : reg \in DOMAIN allData}), <<44>>)

\* ------------------------------------------------------------- bytesWriter
\* A bug to compare with: the offset of the destination in the chunk forgotten.
newBytesWriterAtZero(base, len, destOff) ==
    [discard |-> FALSE, base |-> base, len |-> len, destOff |-> 0, current |-> 0]

newBytesWriter(base, len, destOff) ==
    [discard |-> FALSE, base |-> base, len |-> len, destOff |-> destOff, current |-> 0]

\* io.Discard, the writer cacheAt registers.
ioDiscard == [discard |-> TRUE, base |-> 0, len |-> 0, destOff |-> 0, current |-> 0]

\* A bug to compare with: the stream copied from the start of each Write's
\* bytes, whatever the offset the destination begins at.
bytesWriterCopyHead(bw, p, data) ==
    LET destBase == positive(bw.current - bw.destOff)
        n        == Min(bw.len - destBase, Len(data))
    IN  IF destBase > bw.len
        THEN p
        ELSE [i \in 1..Len(p) |->
                IF i > bw.base + destBase /\ i <= bw.base + destBase + n
                THEN data[i - bw.base - destBase]
                ELSE p[i]]

\* Whether bw.Write(data) stays inside dest and data: either it returns before
\* the copy, or dest[destBase:] and p[pBegin:pEnd] are slices Go accepts.
bytesWriterInBounds(bw, data) ==
    LET destBase == positive(bw.current - bw.destOff)
        pBegin   == positive(bw.destOff - bw.current)
        pEnd0    == positive(bw.destOff + bw.len - bw.current)
        pEnd     == IF pEnd0 > Len(data) THEN Len(data) ELSE pEnd0
    IN  \/ destBase > bw.len
        \/ pBegin >= Len(data)
        \/ destBase <= bw.len /\ pBegin <= pEnd /\ pEnd <= Len(data)

\* What bw.Write(data) returns, on each of its paths: (len(p), nil).
bytesWriterRet(bw, data) == [n |-> Len(data), err |-> Nil]

\* The caller's buffer p after bw.Write(data); dest is p[base : base+len].
bytesWriterCopy(bw, p, data) ==
    LET destBase == positive(bw.current - bw.destOff)
        pBegin   == positive(bw.destOff - bw.current)
        pEnd0    == positive(bw.destOff + bw.len - bw.current)
        pEnd     == IF pEnd0 > Len(data) THEN Len(data) ELSE pEnd0
        n        == Min(bw.len - destBase, pEnd - pBegin)
    IN  IF destBase > bw.len \/ pBegin >= Len(data)
        THEN p
        ELSE [i \in 1..Len(p) |->
                IF i > bw.base + destBase /\ i <= bw.base + destBase + n
                THEN data[pBegin + (i - bw.base - destBase)]
                ELSE p[i]]

\* One Write call on a registered writer: the buffer and the writer after it.
WriterWrite(bw, p, data) ==
    IF bw.discard
    THEN [p |-> p, w |-> bw]
    ELSE [p |-> bytesWriterCopy(bw, p, data),
          w |-> [bw EXCEPT !.current = bw.current + Len(data)]]

\* io.CopyN hands the stream to the writer in pieces of at most `piece` bytes.
RECURSIVE CopyPieces(_, _, _, _)
CopyPieces(bw, p, data, piece) ==
    IF data = <<>> THEN [p |-> p, w |-> bw]
    ELSE LET k == Min(piece, Len(data))
             r == WriterWrite(bw, p, SubSeq(data, 1, k))
         IN  CopyPieces(r.w, r.p, SubSeq(data, k + 1, Len(data)), piece)

\* ------------------------------------------------------------------ state
VARIABLES
    blob,               \* the immutable fields: size, chunkSize, prefetchChunkSize
    env,                \* what the blob's clients and its server may do in this run
    fetcher,            \* b.fetcher
    closed,             \* b.closed
    lastCheck,          \* b.lastCheck
    now,                \* the wall clock time.Now() reads
    cache,              \* b.cache: committed entries, id -> bytes
    fetchedRegionSet,   \* b.fetchedRegionSet: the byte offsets it covers
    fetchedRegionGroup, \* b.fetchedRegionGroup: key -> the call in flight
    task,               \* the goroutines: one record per slot
    cache0,             \* history: the cache at construction
    nevict,             \* history: entries the cache backend dropped
    nrepeat,            \* history: calls that were repeated
    hist                \* history: what Close, Refresh, Size and FetchedSize did

vars == <<blob, env, fetcher, closed, lastCheck, now, cache, fetchedRegionSet,
          fetchedRegionGroup, task, cache0, nevict, nrepeat, hist>>

EmptyMap == [x \in {} |-> 0]

\* A fetcher is its URL and the digest of the blob it serves.
Fetcher(url) == [url |-> url, digest |-> "sha256:blob"]

\* genID: the cache key of a chunk, "<blob-digest>-<b>-<e>".
genID(fr, reg) == <<fr.digest, reg.b, reg.e>>

\* The chunk grid of a blob.
Grid(size, chunkSize) ==
    {Region(i, Min(i + chunkSize - 1, size - 1)) :
        i \in {j \in 0..(size - 1) : j % chunkSize = 0}}

\* A bug to compare with: the bytes the cache holds now taken for the fetched size.
FetchedSizeCached ==
    Cardinality(UNION {id[2]..id[3] : id \in DOMAIN cache})

\* FetchedSize: regionSet.totalSize() under fetchedRegionSetMu.
FetchedSize == Cardinality(fetchedRegionSet)

\* regionSet.add: the set covers the chunk's bytes after it.
regionSetAdd(set, chunk) == set \cup (chunk.b .. chunk.e)

IdleTask ==
    [pc |-> "idle", owner |-> 0, kind |-> "none", off |-> 0, len |-> 0,
     callOff |-> 0, callLen |-> 0, fr |-> Fetcher(0), p |-> <<>>, walk |-> <<>>,
     allData |-> EmptyMap, fetched |-> EmptyMap, key |-> <<>>, frFetch |-> Fetcher(0),
     resp |-> <<>>, respEnd |-> EOF, todo |-> <<>>, avail |-> 0, copyTodo |-> {},
     err |-> Nil, n |-> 0, shared |-> FALSE,
     \* history of the call, for the properties
     rep |-> FALSE, prevP |-> <<>>, prevN |-> 0, fs0 |-> 0, nfetch |-> 0, nadd |-> 0,
     nflight |-> 0, hits |-> {}, asked |-> {}, viaShared |-> FALSE,
     answers |-> {}, aborts |-> {},
     sawClosed |-> FALSE, ncache |-> 0, frSeen |-> Fetcher(0), frFetchSeen |-> Fetcher(0),
     waited |-> FALSE, doErr |-> Nil, cw |-> <<>>, before |-> <<>>,
     \* Check and Refresh
     now0 |-> 0, lc0 |-> 0, probed |-> FALSE, probeAt |-> 0, resolved |-> FALSE,
     answer |-> "none", lcBefore |-> 0, lcAfter |-> 0,
     frBefore |-> Fetcher(0), frAfter |-> Fetcher(0)]

Active(t) == task[t].pc \notin {"idle", "done"}

\* A bug to compare with: the close flag never looked at.
isClosedNever == FALSE

\* isClosed: b.closed under closedMu.
isClosed == closed

\* A bug to compare with: the fetcher of construction kept as the snapshot.
getFetcherFirst == Fetcher(1)

\* getFetcher: b.fetcher under fetcherMu.
getFetcher == fetcher

\* The mutexes the code holds at each of its calls into the cache, the fetcher
\* and the resolver.
HeldAt ==
    [cacheGet       |-> {},                       \* readFromCache, cacheAt
     readerReadAt   |-> {},                       \* readFromCache: r.ReadAt
     fetch          |-> {},                       \* fetchRegions: fr.fetch
     cacheAdd       |-> {},                       \* cacheChunkData: Add, CopyN, Commit
     check          |-> {},                       \* Check: fr.check
     resolveFetcher |-> {},                       \* Refresh
     cacheClose     |-> {"closedMu"},             \* Close: b.cache.Close()
     cacheGetBack   |-> {},                       \* copyFetchedChunks: b.cache.Get
     readerCopy     |-> {"fetchedRegionCopyMu"}]  \* copyFetchedChunks: io.CopyN

\* The history after the calls at the given sites: it keeps each call made with
\* a mutex held.
DoIO(h, sites) ==
    [h EXCEPT !.locked = @ \cup UNION {{[io |-> x, mu |-> m] : m \in HeldAt[x]} :
                                          x \in sites}]

\* ------------------------------------------------------------ cache backend
\* cache.Get(id): whether a committed entry answers.
CacheHas(c, id) == id \in DOMAIN c

\* cw.Commit(): the writer's bytes become the entry of id.
CacheCommit(c, id, data) == (id :> data) @@ c

\* The reader's ReadAt(dest, off): the bytes it delivers, at most want of them.
CacheReadAt(data, off, want) ==
    LET k == positive(Min(want, Len(data) - off))
    IN  SubSeq(data, off + 1, off + k)

\* ------------------------------------------------------------------ ReadAt
\* A bug to compare with: the buffer length reported whatever the blob holds.
adjustBufferSizeWhole(len, offset, size) == len

\* adjustBufferSize: the byte count ReadAt reports on success.
adjustBufferSize(len, offset, size) ==
    LET remain == size - offset
    IN  IF len >= remain THEN (IF remain < 0 THEN 0 ELSE remain) ELSE len

\* The task record when fetchRange ends with err (ReadAt and cacheAt return).
Returned(tk, err) ==
    [tk EXCEPT !.pc = "done", !.err = err,
               !.n = IF tk.kind = "read" /\ err = Nil
                     THEN adjustBufferSize(tk.len, tk.off, blob.size) ELSE 0]

\* fetchRange's entry: nothing to fetch returns at once.
EnterFetchRange(tk) ==
    IF DOMAIN tk.allData = {} THEN Returned(tk, Nil) ELSE [tk EXCEPT !.pc = "flight"]

\* The walk over the aligned region that ReadAt and cacheAt start with.
StartWalk(tk) ==
    LET w == walkChunks(alignedRegion(tk.off, tk.len, blob.chunkSize),
                        blob.size, blob.chunkSize)
    IN  IF w.err # Nil THEN [tk EXCEPT !.pc = "done", !.err = w.err]
        ELSE IF w.chunks = <<>> THEN EnterFetchRange(tk)
        ELSE [tk EXCEPT !.pc = "probe", !.walk = w.chunks]

\* A bug to compare with: ReadAt going on whatever the buffer and the offset.
nothingToReadNever(len, offset, size) == FALSE

\* ReadAt's early return: len(p) == 0 || offset > b.size.
nothingToRead(len, offset, size) == len = 0 \/ offset > size

\* ReadAt up to its first cache probe.
StartReadAt(tk, offset, len) ==
    LET t0 == [tk EXCEPT !.kind = "read", !.off = offset, !.len = len,
                         !.callOff = offset, !.callLen = len,
                         !.p = [i \in 1..len |-> NoByte],
                         !.sawClosed = closed]
    IN  IF isClosed THEN [t0 EXCEPT !.pc = "done", !.err = ErrClosed]
        ELSE IF nothingToRead(len, offset, blob.size) THEN [t0 EXCEPT !.pc = "done"]
        ELSE StartWalk([t0 EXCEPT !.fr = getFetcher, !.frSeen = hist.installed])

\* cacheAt up to its first cache probe.
StartCacheAt(tk, offset, size, fr) ==
    StartWalk([tk EXCEPT !.kind = "cache", !.off = offset, !.len = size, !.fr = fr,
                         !.frSeen = hist.installed])

\* The slots a new call takes: the lowest idle ones.
IdleSlots == {t \in Tasks : task[t].pc = "idle"}

RECURSIVE LowestSeq(_, _)
LowestSeq(S, k) ==
    IF k = 0 \/ S = {} THEN <<>>
    ELSE LET m == CHOOSE x \in S : \A y \in S : x <= y
         IN  <<m>> \o LowestSeq(S \ {m}, k - 1)

\* A client may call when its scenario allows concurrent calls or nothing runs.
CanCall == env.conc \/ \A t \in Tasks : ~Active(t)

\* The calls the clients have made so far, each named by its first slot.
Calls == {task[t].owner : t \in {u \in Tasks : task[u].pc # "idle"}}

\* A client may make a new call while the scenario has calls left.
CanCallFresh == CanCall /\ Cardinality(Calls) < env.calls

ReadAt(offset, len) ==
    /\ CanCallFresh
    /\ IdleSlots # {}
    /\ LET t == LowestSeq(IdleSlots, 1)[1]
       IN  task' = [task EXCEPT ![t] =
                        StartReadAt([IdleTask EXCEPT !.owner = t], offset, len)]
    /\ UNCHANGED <<blob, env, fetcher, closed, lastCheck, now, cache,
                   fetchedRegionSet, fetchedRegionGroup, cache0, nevict, nrepeat, hist>>

\* A bug to compare with: readFromCache reporting a miss whatever it read.
readFromCacheNever(has, n, expectedSize) == FALSE

\* readFromCache: the entry answered and delivered all the bytes wanted.
readFromCache(has, n, expectedSize) == has /\ n = expectedSize

\* A bug to compare with: cacheAt taking every chunk for missing.
cacheAtHitNever(has) == FALSE

\* cacheAt's walkFn: b.cache.Get answered.
cacheAtHit(has) == has

\* prepareChunksForRead's walkFn and cacheAt's walkFn on the next chunk.  The
\* history set hits records what the cache held when it was probed.
ProbeChunk(tk, chunk) ==
    LET id == genID(tk.fr, chunk)
        held == IF CacheHas(cache, id) THEN {chunk} ELSE {}
    IN  IF tk.kind = "read"
        THEN LET base         == positive(chunk.b - tk.off)
                 lowerUnread  == positive(tk.off - chunk.b)
                 upperUnread  == positive(chunk.e + 1 - (tk.off + tk.len))
                 expectedSize == RegSize(chunk) - upperUnread - lowerUnread
                 got == IF CacheHas(cache, id)
                        THEN CacheReadAt(cache[id], lowerUnread, expectedSize)
                        ELSE <<>>
                 hit == readFromCache(CacheHas(cache, id), Len(got), expectedSize)
                 p1  == [i \in 1..Len(tk.p) |->
                            IF i > base /\ i <= base + Len(got)
                            THEN got[i - base] ELSE tk.p[i]]
             IN  [tk EXCEPT !.p = p1, !.ncache = @ + 1,
                            !.hits = @ \cup held,
                            !.allData = IF hit THEN @
                                        ELSE (chunk :> newBytesWriter(base, expectedSize, lowerUnread)) @@ @]
        ELSE IF cacheAtHit(CacheHas(cache, id))
             THEN [tk EXCEPT !.hits = @ \cup held, !.ncache = @ + 1]
             ELSE [tk EXCEPT !.hits = @ \cup held, !.ncache = @ + 1,
                             !.allData = (chunk :> ioDiscard) @@ @]

Probe(t) ==
    /\ task[t].pc = "probe"
    /\ LET tk == task[t]
           t1 == [ProbeChunk(tk, Head(tk.walk)) EXCEPT !.walk = Tail(tk.walk)]
       IN  task' = [task EXCEPT ![t] =
                        IF t1.walk = <<>> THEN EnterFetchRange(t1) ELSE t1]
    /\ hist' = DoIO(hist, IF task[t].kind = "read"
                              /\ CacheHas(cache, genID(task[t].fr, Head(task[t].walk)))
                           THEN {"cacheGet", "readerReadAt"} ELSE {"cacheGet"})
    /\ UNCHANGED <<blob, env, fetcher, closed, lastCheck, now, cache,
                   fetchedRegionSet, fetchedRegionGroup, cache0, nevict, nrepeat>>

\* ------------------------------------------------------------------- Cache
RECURSIVE Windows(_, _, _)
\* The (offset, size) windows of Cache's fan-out loop.
Windows(i, end, fetchSize) ==
    IF i < end
    THEN <<[off |-> i, len |-> IF i + fetchSize > end THEN end - i ELSE fetchSize]>>
         \o Windows(i + fetchSize, end, fetchSize)
    ELSE <<>>

\* The goroutines Cache starts, each up to its first cache probe.  A Cache that
\* starts none (or finds the blob closed) is one finished record.
CacheTasks(tk, offset, size) ==
    LET t0 == [tk EXCEPT !.kind = "cache", !.callOff = offset, !.callLen = size,
                         !.off = offset, !.len = size, !.sawClosed = closed]
        fr == fetcher
    IN  IF isClosed THEN <<[t0 EXCEPT !.pc = "done", !.err = ErrClosed]>>
        ELSE IF blob.prefetchChunkSize <= blob.chunkSize
        THEN <<StartCacheAt(t0, offset, size, fr)>>
        ELSE LET fetchSize == blob.chunkSize * GoDiv(blob.prefetchChunkSize, blob.chunkSize)
                 ws == Windows(offset, offset + size, fetchSize)
             IN  IF ws = <<>> THEN <<[t0 EXCEPT !.pc = "done"]>>
                 ELSE [i \in 1..Len(ws) |-> StartCacheAt(t0, ws[i].off, ws[i].len, fr)]

\* The tasks of a call put into their slots.
Placed(slots, recs) ==
    [t \in Tasks |->
        IF \E i \in 1..Len(slots) : slots[i] = t
        THEN recs[CHOOSE i \in 1..Len(slots) : slots[i] = t]
        ELSE task[t]]

Cache(offset, size) ==
    /\ CanCallFresh
    /\ IdleSlots # {}
    /\ LET owner == LowestSeq(IdleSlots, 1)[1]
           recs  == CacheTasks([IdleTask EXCEPT !.owner = owner], offset, size)
       IN  /\ Len(recs) <= Cardinality(IdleSlots)
           /\ task' = Placed(LowestSeq(IdleSlots, Len(recs)), recs)
    /\ UNCHANGED <<blob, env, fetcher, closed, lastCheck, now, cache,
                   fetchedRegionSet, fetchedRegionGroup, cache0, nevict, nrepeat, hist>>

\* ------------------------------------------------------------- the fetcher
RECURSIVE SortRegions(_)
SortRegions(S) ==
    IF S = {} THEN <<>>
    ELSE LET m == CHOOSE r \in S : \A q \in S : r.b <= q.b
         IN  <<m>> \o SortRegions(S \ {m})

\* A 206 answer: one part per requested region, each with all its bytes.
ExactParts(req) ==
    LET s == SortRegions(req)
    IN  [i \in 1..Len(s) |-> [reg |-> s[i], avail |-> RegSize(s[i])]]

\* A 200 answer: the whole blob as one region.
WholeParts == <<[reg |-> Region(0, blob.size - 1), avail |-> blob.size]>>

RECURSIVE TotalBytes(_)
TotalBytes(parts) ==
    IF parts = <<>> THEN 0 ELSE Head(parts).avail + TotalBytes(Tail(parts))

RECURSIVE Truncate(_, _)
\* A body that ends after k bytes.
Truncate(parts, k) ==
    IF parts = <<>> \/ k = 0 THEN <<>>
    ELSE IF Head(parts).avail <= k
    THEN <<Head(parts)>> \o Truncate(Tail(parts), k - Head(parts).avail)
    ELSE <<[Head(parts) EXCEPT !.avail = k]>>

GoodParts(req) ==
    (IF "exact" \in env.resps THEN {ExactParts(req)} ELSE {})
    \cup (IF "whole" \in env.resps THEN {WholeParts} ELSE {})

\* What fr.fetch and the multipart reader may deliver for a request.
Responses(req) ==
    (IF "exact" \in env.resps
     THEN {[kind |-> "exact", err |-> Nil, parts |-> ExactParts(req), end |-> EOF]}
     ELSE {})
    \cup (IF "whole" \in env.resps
          THEN {[kind |-> "whole", err |-> Nil, parts |-> WholeParts, end |-> EOF]}
          ELSE {})
    \cup (IF "fail" \in env.resps
          THEN {[kind |-> "fail", err |-> ErrFetch, parts |-> <<>>, end |-> EOF]}
          ELSE {})
    \cup (IF "short" \in env.resps
          THEN UNION {{[kind |-> "short", err |-> Nil, parts |-> Truncate(g, k),
                        end |-> ErrMultipart] :
                          k \in 0..(TotalBytes(g) - 1)} : g \in GoodParts(req)}
          ELSE {})
    \cup (IF "missing" \in env.resps
          THEN {[kind |-> "missing", err |-> Nil,
                 parts |-> SubSeq(ExactParts(req), 1, Cardinality(req) - 1),
                 end |-> EOF]}
          ELSE {})

\* ------------------------------------------------------------ fetchRegions
\* A bug to compare with: the check for unfetched regions left out.
checkAllFetchedSkipped(fetched) == Nil

\* fetchRegions after its last part: the check that every region was fetched.
checkAllFetched(fetched) ==
    IF \E reg \in DOMAIN fetched : ~fetched[reg] THEN ErrUnfetched ELSE Nil

RECURSIVE LoadNext(_)
\* mr.Next() and the walk over the part it yields: the chunks to cache next, or
\* the end of fetchRegions.
LoadNext(tk) ==
    IF tk.resp = <<>>
    THEN [tk EXCEPT !.pc = "finish",
                    !.err = IF tk.respEnd # EOF
                            THEN Errorf("failed to read multipart resp", tk.respEnd)
                            ELSE checkAllFetched(tk.fetched)]
    ELSE LET part == Head(tk.resp)
             w    == walkChunks(part.reg, blob.size, blob.chunkSize)
             t1   == [tk EXCEPT !.resp = Tail(tk.resp)]
         IN  IF w.err # Nil
             THEN [t1 EXCEPT !.pc = "finish", !.err = Errorf("failed to get chunks", w.err)]
             ELSE IF w.chunks = <<>> THEN LoadNext(t1)
             ELSE [t1 EXCEPT !.pc = "recv", !.todo = w.chunks, !.avail = part.avail]

\* A bug to compare with: the requested regions not entered as unfetched.
unfetchedNone(req) == EmptyMap

\* fetchRegions' loop over allData: fetched[reg] = false for every region asked.
unfetched(req) == [reg \in req |-> FALSE]

\* singleflight.Group.Do's lookup: a call for the key is in flight.
inFlight(group, key) == key \in DOMAIN group

\* singleflight.Group.Do finds no call in flight for the key: this goroutine runs
\* fetchRegions up to the answer of fr.fetch.
FetchRegions(t) ==
    /\ task[t].pc = "flight"
    /\ LET tk  == task[t]
           key == makeSyncKey(tk.allData)
           req == DOMAIN tk.allData
       IN  /\ ~inFlight(fetchedRegionGroup, key)
           /\ fetchedRegionGroup' = (key :> [primary |-> t, dups |-> 0]) @@ fetchedRegionGroup
           /\ \E r \in Responses(req) :
                LET t1 == [tk EXCEPT !.key = key, !.frFetch = getFetcher,
                                     !.frFetchSeen = hist.installed,
                                     !.fetched = unfetched(req),
                                     !.nfetch = @ + 1, !.nflight = @ + 1,
                                     !.waited = FALSE,
                                     !.asked = @ \cup req,
                                     !.answers = @ \cup {r.kind}]
                IN  IF r.err # Nil
                    THEN /\ task' = [task EXCEPT ![t] = [t1 EXCEPT !.pc = "finish", !.err = r.err]]
                         /\ UNCHANGED <<lastCheck, now>>
                    ELSE /\ task' = [task EXCEPT ![t] =
                                        LoadNext([t1 EXCEPT !.resp = r.parts, !.respEnd = r.end])]
                         /\ lastCheck' = now
                         /\ UNCHANGED now
    /\ hist' = DoIO(hist, {"fetch"})
    /\ UNCHANGED <<blob, env, fetcher, closed, cache, fetchedRegionSet,
                   cache0, nevict, nrepeat>>

\* singleflight.Group.Do finds a call in flight for the key: wait for its result.
JoinFlight(t) ==
    /\ task[t].pc = "flight"
    /\ LET key == makeSyncKey(task[t].allData)
       IN  /\ inFlight(fetchedRegionGroup, key)
           /\ fetchedRegionGroup' =
                [fetchedRegionGroup EXCEPT ![key].dups = @ + 1]
           /\ task' = [task EXCEPT ![t] = [@ EXCEPT !.pc = "wait", !.key = key,
                                                   !.fetched = EmptyMap,
                                                   !.nflight = @ + 1,
                                                   !.waited = TRUE]]
    /\ UNCHANGED <<blob, env, fetcher, closed, lastCheck, now, cache,
                   fetchedRegionSet, cache0, nevict, nrepeat, hist>>

\* A bug to compare with: the result of io.CopyN ignored.
copyFailedNever(got, want) == FALSE

\* io.CopyN's verdict in cacheChunkData: the reader ended before the chunk did.
copyFailed(got, want) == got < want

\* cacheChunkData up to the writer b.cache.Add returns, where the scenario
\* follows the writers: the writer stays open while the chunk's bytes arrive.
CacheAdd(t) ==
    /\ env.writers
    /\ task[t].pc = "recv"
    /\ task[t].cw = <<>>
    /\ task' = [task EXCEPT ![t].cw = <<genID(task[t].frFetch, Head(task[t].todo))>>]
    /\ UNCHANGED <<blob, env, fetcher, closed, lastCheck, now, cache, fetchedRegionSet,
                   fetchedRegionGroup, cache0, nevict, nrepeat, hist>>

\* cacheChunkData on the next chunk of the part being read; the writer is
\* closed when it returns.
CacheChunkData(t, piece) ==
    /\ task[t].pc = "recv"
    /\ env.writers => task[t].cw # <<>>
    /\ LET tk    == task[t]
           chunk == Head(tk.todo)
           id    == genID(tk.frFetch, chunk)
           got   == Min(tk.avail, RegSize(chunk))
           data  == SubSeq(BlobBytes(chunk), 1, got)
           teed  == chunk \in DOMAIN tk.fetched
           wr    == IF teed THEN CopyPieces(tk.allData[chunk], tk.p, data, piece)
                    ELSE [p |-> tk.p, w |-> ioDiscard]
           t1    == IF teed THEN [tk EXCEPT !.p = wr.p, !.allData[chunk] = wr.w] ELSE tk
       IN  IF copyFailed(got, RegSize(chunk))
           THEN \* cw.Abort()
                /\ task' = [task EXCEPT ![t] =
                                [t1 EXCEPT !.pc = "finish", !.cw = <<>>,
                                           !.aborts = @ \cup {[chunk |-> chunk, got |-> got]},
                                           !.err = Errorf("failed to get chunks",
                                                      Errorf("failed to write chunk data", EOF))]]
                /\ UNCHANGED <<cache, fetchedRegionSet>>
           ELSE \* cw.Commit()
                /\ cache' = CacheCommit(cache, id, data)
                /\ fetchedRegionSet' = regionSetAdd(fetchedRegionSet, chunk)
                /\ LET t2 == [t1 EXCEPT !.fetched = (chunk :> TRUE) @@ @,
                                        !.cw = <<>>,
                                        !.nadd = @ + 1,
                                        !.todo = Tail(@),
                                        !.avail = @ - RegSize(chunk)]
                   IN  task' = [task EXCEPT ![t] =
                                    IF t2.todo = <<>> THEN LoadNext(t2) ELSE t2]
    /\ hist' = DoIO(hist, {"cacheAdd"})
    /\ UNCHANGED <<blob, env, fetcher, closed, lastCheck, now, fetchedRegionGroup,
                   cache0, nevict, nrepeat>>

\* -------------------------------------------------------------- fetchRange
\* A bug to compare with: a shared result taken for a filled destination.
sharedTodoNone(allData, fetched) == {}

\* A bug to compare with: every region copied out of the cache, those this
\* call's own fetchRegions handled included.
sharedTodoAll(allData, fetched) == DOMAIN allData

\* The regions handleSharedFetch copies out of the cache: those this call's own
\* fetchRegions did not handle.
sharedTodo(allData, fetched) == {reg \in DOMAIN allData : reg \notin DOMAIN fetched}

\* A bug to compare with: the cache read back after every shared result.
readBackAlways(err, shared) == shared

\* fetchRange's test after Do: err == nil && shared.
readBack(err, shared) == err = Nil /\ shared

\* fetchRange after Do returned (err, shared).
AfterDo(tk, err, shared) ==
    LET t0 == [tk EXCEPT !.doErr = err]
    IN  IF readBack(err, shared)
        THEN LET todo == sharedTodo(t0.allData, t0.fetched)
             IN  IF todo = {} THEN Returned(t0, Nil)
                 ELSE [t0 EXCEPT !.pc = "copy", !.copyTodo = todo, !.shared = TRUE]
        ELSE Returned([t0 EXCEPT !.shared = shared], err)

\* The function given to Do returns: the call leaves the group and every
\* goroutine waiting on the key gets its result.
FinishFlight(t) ==
    /\ task[t].pc = "finish"
    /\ LET tk   == task[t]
           dups == fetchedRegionGroup[tk.key].dups
       IN  /\ fetchedRegionGroup' =
                [k \in DOMAIN fetchedRegionGroup \ {tk.key} |-> fetchedRegionGroup[k]]
           /\ task' = [u \in Tasks |->
                         IF u = t THEN AfterDo(tk, tk.err, dups > 0)
                         ELSE IF task[u].pc = "wait" /\ task[u].key = tk.key
                         THEN AfterDo(task[u], tk.err, TRUE)
                         ELSE task[u]]
    /\ UNCHANGED <<blob, env, fetcher, closed, lastCheck, now, cache,
                   fetchedRegionSet, cache0, nevict, nrepeat, hist>>

RECURSIVE CopyWalk(_, _, _)
\* copyFetchedChunks' walkFn over the chunks of a region: the task after it and
\* the error that stopped it.
CopyWalk(tk, chunks, piece) ==
    IF chunks = <<>> THEN [tk |-> tk, err |-> Nil]
    ELSE LET chunk == Head(chunks)
             id    == genID(getFetcher, chunk)
         IN  IF ~CacheHas(cache, id) THEN [tk |-> tk, err |-> ErrCacheMiss]
             ELSE LET data == CacheReadAt(cache[id], 0, RegSize(chunk))
                      wr   == CopyPieces(tk.allData[chunk], tk.p, data, piece)
                      t1   == [tk EXCEPT !.p = wr.p, !.allData[chunk] = wr.w]
                  IN  IF Len(data) < RegSize(chunk) THEN [tk |-> t1, err |-> EOF]
                      ELSE CopyWalk(t1, Tail(chunks), piece)

\* One round of handleSharedFetch's loop, and fetchRange's retry when it fails.
CopyFetchedChunks(t, reg, piece) ==
    /\ task[t].pc = "copy"
    /\ reg \in task[t].copyTodo
    /\ LET tk == task[t]
           w  == walkChunks(reg, blob.size, blob.chunkSize)
           r  == IF w.err # Nil THEN [tk |-> tk, err |-> w.err]
                 ELSE CopyWalk(tk, w.chunks, piece)
           t1 == [r.tk EXCEPT !.copyTodo = @ \ {reg}]
       IN  task' = [task EXCEPT ![t] =
                        IF r.err # Nil
                        THEN [r.tk EXCEPT !.pc = "flight", !.copyTodo = {},
                                          !.fetched = EmptyMap]
                        ELSE IF t1.copyTodo = {}
                        THEN Returned([t1 EXCEPT !.viaShared = TRUE], Nil)
                        ELSE t1]
    /\ LET w == walkChunks(reg, blob.size, blob.chunkSize)
       IN  hist' = DoIO(hist, IF w.err # Nil \/ w.chunks = <<>> THEN {}
                              ELSE IF CacheHas(cache, genID(getFetcher, Head(w.chunks)))
                              THEN {"cacheGetBack", "readerCopy"}
                              ELSE {"cacheGetBack"})
    /\ UNCHANGED <<blob, env, fetcher, closed, lastCheck, now, cache,
                   fetchedRegionSet, fetchedRegionGroup, cache0, nevict, nrepeat>>

\* The cache backend drops a committed entry.
Evict(id) ==
    /\ nevict < env.evict
    /\ id \in DOMAIN cache
    /\ cache' = [k \in DOMAIN cache \ {id} |-> cache[k]]
    /\ nevict' = nevict + 1
    /\ UNCHANGED <<blob, env, fetcher, closed, lastCheck, now, fetchedRegionSet,
                   fetchedRegionGroup, task, cache0, nrepeat, hist>>

\* ---------------------------------------------------------------- clients
TasksOf(o) == {t \in Tasks : task[t].owner = o /\ task[t].pc # "idle"}

CallDone(o) == TasksOf(o) # {} /\ \A t \in TasksOf(o) : task[t].pc = "done"

CallOk(o) == CallDone(o) /\ \A t \in TasksOf(o) : task[t].err = Nil

\* The keys under which the calls a slot has held so far, the one it holds now
\* included, entered the single-flight group.
Earlier(tk) == tk.before \o (IF tk.nflight > 0 THEN <<tk.key>> ELSE <<>>)

\* The client makes a call that succeeded once more, with a fresh buffer.
Repeat(o) ==
    /\ CanCall
    /\ nrepeat < MaxRepeat
    /\ CallOk(o)
    /\ env.repeat
    /\ LET old  == task[o]
           base == [IdleTask EXCEPT !.owner = o, !.rep = TRUE, !.prevP = old.p,
                                    !.prevN = old.n, !.fs0 = FetchedSize]
           recs == IF old.kind = "read"
                   THEN <<StartReadAt(base, old.callOff, old.callLen)>>
                   ELSE CacheTasks(base, old.callOff, old.callLen)
       IN  /\ Len(recs) = Cardinality(TasksOf(o))
           /\ task' = [t \in Tasks |->
                         LET new == Placed(LowestSeq(TasksOf(o), Len(recs)), recs)[t]
                         IN  IF t \in TasksOf(o)
                             THEN [new EXCEPT !.before = Earlier(task[t])]
                             ELSE new]
    /\ nrepeat' = nrepeat + 1
    /\ UNCHANGED <<blob, env, fetcher, closed, lastCheck, now, cache,
                   fetchedRegionSet, fetchedRegionGroup, cache0, nevict, hist>>

\* --------------------------------------------------------------- lifecycle
\* Time passes.
Tick ==
    /\ now < env.ticks
    /\ now' = now + 1
    /\ UNCHANGED <<blob, env, fetcher, closed, lastCheck, cache, fetchedRegionSet,
                   fetchedRegionGroup, task, cache0, nevict, nrepeat, hist>>

\* A bug to compare with: Close closing the cache whatever the flag says.
alreadyClosedNever(c) == FALSE

\* Close's test of b.closed under closedMu.
alreadyClosed(c) == c

\* Close, whole under closedMu: the first one closes the cache and returns its
\* result, a later one returns nil.
Close ==
    /\ Len(hist.closes) < env.closes
    /\ IF alreadyClosed(closed)
       THEN /\ hist' = [hist EXCEPT !.closes = Append(@, Nil)]
            /\ UNCHANGED closed
       ELSE \E r \in {Nil, ErrCacheClose} :
                /\ closed' = TRUE
                /\ hist' = DoIO([hist EXCEPT !.closes = Append(@, r),
                                             !.cacheCloses = Append(@, r)],
                                {"cacheClose"})
    /\ UNCHANGED <<blob, env, fetcher, lastCheck, now, cache, fetchedRegionSet,
                   fetchedRegionGroup, task, cache0, nevict, nrepeat>>

\* A bug to compare with: the interval taken for expired whatever the clock says.
expiredAlways(n, lc, interval) == TRUE

\* Check's test of the interval: now.Sub(lastCheck) < b.checkInterval is false.
expired(n, lc, interval) == ~(n - lc < interval)

\* Check up to the call of fr.check.
Check ==
    /\ env.life
    /\ CanCallFresh
    /\ IdleSlots # {}
    /\ UNCHANGED lastCheck
    /\ LET t  == LowestSeq(IdleSlots, 1)[1]
           t0 == [IdleTask EXCEPT !.owner = t, !.kind = "check", !.sawClosed = closed]
           t1 == [t0 EXCEPT !.now0 = now, !.lc0 = lastCheck,
                            !.lcBefore = lastCheck, !.lcAfter = lastCheck']
       IN  task' = [task EXCEPT ![t] =
                        IF isClosed THEN [t0 EXCEPT !.pc = "done", !.err = ErrClosed]
                        ELSE IF ~expired(now, lastCheck, blob.checkInterval)
                        THEN [t1 EXCEPT !.pc = "done"]
                        ELSE [t1 EXCEPT !.pc = "probing", !.fr = fetcher,
                                        !.frSeen = hist.installed,
                                        !.probed = TRUE, !.probeAt = now]]
    /\ hist' = DoIO(hist, IF ~isClosed /\ expired(now, lastCheck, blob.checkInterval)
                           THEN {"check"} ELSE {})
    /\ UNCHANGED <<blob, env, fetcher, closed, now, cache, fetchedRegionSet,
                   fetchedRegionGroup, cache0, nevict, nrepeat>>

\* A bug to compare with: the time of the probe's end stored.
checkedAtEnd(now0, clock) == clock

\* The time Check stores in lastCheck: the one it captured at its start.
checkedAt(now0, clock) == now0

\* fr.check returns and Check ends.
CheckFinish(t) ==
    /\ task[t].pc = "probing"
    /\ \E r \in env.probes :
         /\ lastCheck' = IF r = "ok" THEN checkedAt(task[t].now0, now) ELSE lastCheck
         /\ task' = [task EXCEPT ![t] =
                        [@ EXCEPT !.pc = "done", !.answer = r,
                                  !.err = IF r = "ok" THEN Nil ELSE ErrCheck,
                                  !.lcBefore = lastCheck, !.lcAfter = lastCheck']]
    /\ UNCHANGED <<blob, env, fetcher, closed, now, cache, fetchedRegionSet,
                   fetchedRegionGroup, cache0, nevict, nrepeat, hist>>

\* Refresh up to the call of the resolver.
Refresh ==
    /\ env.life
    /\ CanCallFresh
    /\ IdleSlots # {}
    /\ LET t  == LowestSeq(IdleSlots, 1)[1]
           t0 == [IdleTask EXCEPT !.owner = t, !.kind = "refresh", !.sawClosed = closed]
       IN  task' = [task EXCEPT ![t] =
                        IF isClosed THEN [t0 EXCEPT !.pc = "done", !.err = ErrClosed]
                        ELSE [t0 EXCEPT !.pc = "resolving", !.resolved = TRUE]]
    /\ hist' = DoIO(hist, IF isClosed THEN {} ELSE {"resolveFetcher"})
    /\ UNCHANGED <<blob, env, fetcher, closed, lastCheck, now, cache, fetchedRegionSet,
                   fetchedRegionGroup, cache0, nevict, nrepeat>>

\* A bug to compare with: the size the resolver reports not compared.
sizeMismatchNever(newSize, size) == FALSE

\* Refresh's test of the size the resolver reports.
sizeMismatch(newSize, size) == newSize # size

\* A bug to compare with: the size the resolver reports taken over.
sizeAfterRefreshAdopted(size, newSize) == newSize

\* b.size after Refresh: Refresh never writes it.
sizeAfterRefresh(size, newSize) == size

\* The resolver returns: Refresh fails, or installs the new fetcher.
RefreshSwap(t) ==
    /\ task[t].pc = "resolving"
    /\ \E r \in env.resolves :
         LET newSize == IF r = "mismatch" THEN blob.size + 1 ELSE blob.size
             f       == Fetcher(1 + t)
             failed  == IF r = "fail" THEN ErrResolve
                        ELSE IF sizeMismatch(newSize, blob.size) THEN ErrSize
                        ELSE Nil
         IN  /\ blob' = [blob EXCEPT !.size =
                            IF r = "fail" THEN @ ELSE sizeAfterRefresh(@, newSize)]
             /\ fetcher' = IF failed = Nil THEN f ELSE fetcher
             /\ hist' = IF failed = Nil THEN [hist EXCEPT !.installed = f] ELSE hist
             /\ task' = [task EXCEPT ![t] =
                            [@ EXCEPT !.pc = IF failed = Nil THEN "stamp" ELSE "done",
                                      !.answer = r, !.err = failed,
                                      !.frBefore = fetcher, !.frAfter = fetcher',
                                      !.lcBefore = lastCheck, !.lcAfter = lastCheck]]
    /\ UNCHANGED <<env, closed, lastCheck, now, cache, fetchedRegionSet,
                   fetchedRegionGroup, cache0, nevict, nrepeat>>

\* Refresh stores time.Now() in lastCheck and returns.
RefreshStamp(t) ==
    /\ task[t].pc = "stamp"
    /\ lastCheck' = now
    /\ task' = [task EXCEPT ![t] =
                    [@ EXCEPT !.pc = "done", !.now0 = now,
                              !.lcBefore = lastCheck, !.lcAfter = lastCheck']]
    /\ UNCHANGED <<blob, env, fetcher, closed, now, cache, fetchedRegionSet,
                   fetchedRegionGroup, cache0, nevict, nrepeat, hist>>

\* Size
Size == blob.size

\* A client calls Size.
SizeCall ==
    /\ env.observe
    /\ hist' = [hist EXCEPT !.sizes = @ \cup {Size}]
    /\ UNCHANGED <<blob, env, fetcher, closed, lastCheck, now, cache, fetchedRegionSet,
                   fetchedRegionGroup, task, cache0, nevict, nrepeat>>

\* A client calls FetchedSize.
FetchedSizeCall ==
    /\ env.observe
    /\ hist' = [hist EXCEPT !.fsPrev = hist.fsRet, !.fsRet = FetchedSize]
    /\ UNCHANGED <<blob, env, fetcher, closed, lastCheck, now, cache, fetchedRegionSet,
                   fetchedRegionGroup, task, cache0, nevict, nrepeat>>

\* ------------------------------------------------------------- arithmetic
\* floor and ceil applied to the scenario's n and unit.
Round ==
    /\ env.arith
    /\ ~hist.rounded
    /\ hist' = [hist EXCEPT !.rounded = TRUE,
                            !.floorN = floor(env.n, env.unit),
                            !.ceilN = ceil(env.n, env.unit),
                            !.floorCeilN = floor(ceil(env.n, env.unit), env.unit)]
    /\ UNCHANGED <<blob, env, fetcher, closed, lastCheck, now, cache, fetchedRegionSet,
                   fetchedRegionGroup, task, cache0, nevict, nrepeat>>

\* walkChunks applied to the scenario's region and walkFn.
Walk ==
    /\ env.walk
    /\ ~hist.walked
    /\ LET r == walkChunksFn(env.reg, blob.size, blob.chunkSize, env.failAt)
       IN  hist' = [hist EXCEPT !.walked = TRUE, !.walkErr = r.err, !.called = r.called]
    /\ UNCHANGED <<blob, env, fetcher, closed, lastCheck, now, cache, fetchedRegionSet,
                   fetchedRegionGroup, task, cache0, nevict, nrepeat>>

\* The next k bytes of the stream go to the scenario's writer in one Write.
\* The stream is the blob's bytes from 0 on; the writer's dest lies in a
\* buffer with one more byte on either side.
WriteNext(k) ==
    /\ env.write
    /\ hist.ws + k <= env.stream
    /\ LET w0   == IF hist.wp = <<>> THEN newBytesWriter(1, env.dlen, env.destOff)
                   ELSE hist.w
           p0   == IF hist.wp = <<>> THEN [i \in 1..(env.dlen + 2) |-> NoByte]
                   ELSE hist.wp
           data == [i \in 1..k |-> BlobByte(hist.ws + i - 1)]
           r    == WriterWrite(w0, p0, data)
           ret  == bytesWriterRet(w0, data)
       IN  hist' = [hist EXCEPT !.w = r.w, !.wp = r.p, !.ws = @ + k,
                                !.wok = /\ @
                                        /\ bytesWriterInBounds(w0, data)
                                        /\ ret.n = k /\ ret.err = Nil]
    /\ UNCHANGED <<blob, env, fetcher, closed, lastCheck, now, cache, fetchedRegionSet,
                   fetchedRegionGroup, task, cache0, nevict, nrepeat>>

\* ---------------------------------------------------------------- mutexes
\* The blob's mutexes.
Mutexes == {"fetcherMu", "lastCheckMu", "fetchedRegionSetMu", "fetchedRegionCopyMu",
            "closedMu"}

Lock(m) == [op |-> "lock", mu |-> m]
Unlock(m) == [op |-> "unlock", mu |-> m]
\* A call into the cache made between a Lock and its Unlock.
LockedCall == [op |-> "call", mu |-> "none"]

\* What each method does to the mutexes, in the order of its code.
isClosedLocks == <<Lock("closedMu"), Unlock("closedMu")>>

getFetcherLocks == <<Lock("fetcherMu"), Unlock("fetcherMu")>>

CloseLocks == <<Lock("closedMu"), LockedCall, Unlock("closedMu")>>

RefreshLocks ==
    isClosedLocks \o <<Lock("fetcherMu"), Unlock("fetcherMu"),
                       Lock("lastCheckMu"), Unlock("lastCheckMu")>>

CheckLocks ==
    isClosedLocks \o <<Lock("lastCheckMu"), Unlock("lastCheckMu"),
                       Lock("fetcherMu"), Unlock("fetcherMu"),
                       Lock("lastCheckMu"), Unlock("lastCheckMu")>>

FetchedSizeLocks == <<Lock("fetchedRegionSetMu"), Unlock("fetchedRegionSetMu")>>

cacheChunkDataLocks == <<Lock("fetchedRegionSetMu"), Unlock("fetchedRegionSetMu")>>

\* fetchRegions receiving one chunk.
fetchRegionsLocks ==
    getFetcherLocks \o <<Lock("lastCheckMu"), Unlock("lastCheckMu")>>
        \o cacheChunkDataLocks

\* A bug to compare with: the fetcher taken after fetchedRegionCopyMu.
copyFetchedChunksLocksNested ==
    <<Lock("fetchedRegionCopyMu")>> \o getFetcherLocks
        \o <<LockedCall, Unlock("fetchedRegionCopyMu")>>

\* copyFetchedChunks' walkFn on one chunk.
copyFetchedChunksLocks ==
    getFetcherLocks \o <<Lock("fetchedRegionCopyMu"), LockedCall,
                         Unlock("fetchedRegionCopyMu")>>

\* fetchRange: the goroutine runs fetchRegions itself, or waits for another's
\* and copies the chunk out of the cache, or does that and, the chunk gone,
\* enters again and runs fetchRegions.
fetchRangeLocks(how) ==
    IF how = "fetch" THEN fetchRegionsLocks
    ELSE IF how = "copy" THEN copyFetchedChunksLocks
    ELSE copyFetchedChunksLocks \o fetchRegionsLocks

ReadAtLocks(how) == isClosedLocks \o getFetcherLocks \o fetchRangeLocks(how)

CacheLocks(how) ==
    isClosedLocks \o <<Lock("fetcherMu"), Unlock("fetcherMu")>> \o fetchRangeLocks(how)

\* The goroutine's next step on the mutexes.  Lock waits while the mutex is
\* held, also by the goroutine itself.
LockStep(t) ==
    /\ env.locks
    /\ hist.lkpc[t] <= Len(env.progs[t])
    /\ LET e    == env.progs[t][hist.lkpc[t]]
           mine == {m \in Mutexes : hist.owner[m] = t}
       IN  /\ e.op = "lock" => hist.owner[e.mu] = 0
           /\ hist' = [hist EXCEPT
                         !.lkpc[t] = @ + 1,
                         !.owner = IF e.op = "lock" THEN [@ EXCEPT ![e.mu] = t]
                                   ELSE IF e.op = "unlock" THEN [@ EXCEPT ![e.mu] = 0]
                                   ELSE @,
                         !.nested = @ \/ (e.op = "lock" /\ mine # {})]
    /\ UNCHANGED <<blob, env, fetcher, closed, lastCheck, now, cache, fetchedRegionSet,
                   fetchedRegionGroup, task, cache0, nevict, nrepeat>>

\* ------------------------------------------------------------ construction
\* The caches a blob may be constructed over: any set of whole chunks.
InitialCaches(size, chunkSize) ==
    {[id \in {genID(Fetcher(1), c) : c \in S} |-> BlobBytes(Region(id[2], id[3]))] :
        S \in SUBSET Grid(size, chunkSize)}

\* makeBlob, over a given blob and client scenario.
MakeBlob(b, e) ==
    /\ blob = b
    /\ env = e
    /\ fetcher = Fetcher(1)
    /\ closed = FALSE
    /\ lastCheck = 0
    /\ now = 0
    /\ cache \in InitialCaches(b.size, b.chunkSize)
    /\ cache0 = cache
    /\ fetchedRegionSet = {}
    /\ fetchedRegionGroup = EmptyMap
    /\ task = [t \in Tasks |-> IdleTask]
    /\ nevict = 0
    /\ nrepeat = 0
    /\ hist = [installed |-> Fetcher(1), size0 |-> b.size, closes |-> <<>>,
               cacheCloses |-> <<>>, sizes |-> {}, fsPrev |-> 0, fsRet |-> 0,
               locked |-> {}, rounded |-> FALSE, floorN |-> 0, ceilN |-> 0,
               floorCeilN |-> 0, walked |-> FALSE, walkErr |-> Nil, called |-> <<>>,
               w |-> ioDiscard, wp |-> <<>>, ws |-> 0, wok |-> TRUE,
               lkpc |-> [t \in Tasks |-> 1], owner |-> [m \in Mutexes |-> 0],
               nested |-> FALSE]

\* Concurrent clients of one small blob.
ConcBlobs ==
    {[size |-> 3, chunkSize |-> 2, prefetchChunkSize |-> pf] : pf \in {0, 3}}

ConcEnv ==
    [conc |-> TRUE, calls |-> 2, reads |-> {<<0, 2>>, <<1, 3>>}, caches |-> {<<0, 2>>},
     resps |-> {"exact", "fail"}, pieces |-> {1, 2}, evict |-> MaxEvict, repeat |-> TRUE,
     life |-> FALSE, ticks |-> 0, closes |-> 0, observe |-> FALSE,
     writers |-> FALSE, arith |-> FALSE, walk |-> FALSE,
     write |-> FALSE, locks |-> FALSE]

\* One client at a time, over every small blob, call and server answer.
SeqBlobs ==
    UNION {{[size |-> s, chunkSize |-> c, prefetchChunkSize |-> pf] : pf \in {0, c + 1}} :
              <<s, c>> \in ((MaxBlobSize - 1)..MaxBlobSize) \X {2, 3}}

SeqEnv ==
    [conc |-> FALSE, calls |-> 1,
     reads |-> (0..(MaxBlobSize + 1)) \X (0..MaxLen),
     caches |-> (0..(MaxBlobSize + 1)) \X (0..MaxLen),
     resps |-> {"exact", "whole", "fail", "short", "missing"},
     pieces |-> {1, 3}, evict |-> 0, repeat |-> TRUE,
     life |-> FALSE, ticks |-> 0, closes |-> 0, observe |-> FALSE,
     writers |-> FALSE, arith |-> FALSE, walk |-> FALSE,
     write |-> FALSE, locks |-> FALSE]

\* makeBlob over a cold cache.
MakeColdBlob(b, e) == MakeBlob(b, e) /\ cache = EmptyMap

\* Clients that also check and refresh the blob while the clock runs.
CheckBlobs ==
    {[size |-> 3, chunkSize |-> 2, prefetchChunkSize |-> 0, checkInterval |-> ci] :
        ci \in {1, 2}}

CheckEnv ==
    [conc |-> TRUE, calls |-> 2, reads |-> {<<1, 2>>}, caches |-> {},
     resps |-> {"exact", "fail"}, pieces |-> {2}, evict |-> 0, repeat |-> FALSE,
     life |-> TRUE, ticks |-> MaxTime, closes |-> 0, observe |-> FALSE, writers |-> FALSE,
     arith |-> FALSE, walk |-> FALSE,
     write |-> FALSE, locks |-> FALSE,
     probes |-> {"ok", "fail"}, resolves |-> {"ok", "fail", "mismatch"}]

\* Clients that also close the blob and ask for its size and fetched size.
CloseBlobs ==
    {[size |-> 3, chunkSize |-> 2, prefetchChunkSize |-> 0, checkInterval |-> 0]}

CloseEnv ==
    [conc |-> TRUE, calls |-> 2, reads |-> {<<1, 2>>}, caches |-> {<<0, 2>>},
     resps |-> {"exact"}, pieces |-> {2}, evict |-> MaxEvict, repeat |-> FALSE,
     life |-> TRUE, ticks |-> 0, closes |-> MaxClose, observe |-> TRUE, writers |-> FALSE,
     arith |-> FALSE, walk |-> FALSE,
     write |-> FALSE, locks |-> FALSE,
     probes |-> {"ok"}, resolves |-> {"ok", "mismatch"}]

\* Two clients read the same chunk again and again while the cache backend
\* drops it.
RetryBlobs ==
    {[size |-> 3, chunkSize |-> 2, prefetchChunkSize |-> 0]}

RetryEnv ==
    [conc |-> TRUE, calls |-> 2, reads |-> {<<0, 2>>}, caches |-> {},
     resps |-> {"exact"}, pieces |-> {2}, evict |-> MaxRetryEvict, repeat |-> TRUE,
     life |-> FALSE, ticks |-> 0, closes |-> 0, observe |-> FALSE,
     writers |-> FALSE, arith |-> FALSE, walk |-> FALSE,
     write |-> FALSE, locks |-> FALSE]

\* Two clients whose reads overlap in one chunk, with the cache writers
\* followed from Add to Commit.
WriterBlobs ==
    {[size |-> 3, chunkSize |-> 2, prefetchChunkSize |-> 0]}

WriterEnv ==
    [conc |-> TRUE, calls |-> 2, reads |-> {<<0, 2>>, <<1, 2>>}, caches |-> {},
     resps |-> {"exact", "short"}, pieces |-> {2}, evict |-> 0, repeat |-> FALSE,
     life |-> FALSE, ticks |-> 0, closes |-> 0, observe |-> FALSE,
     writers |-> TRUE, arith |-> FALSE, walk |-> FALSE,
     write |-> FALSE, locks |-> FALSE]

\* floor and ceil over every n >= 0 and unit > 0 an int64 holds.
ArithEnvs ==
    {[conc |-> FALSE, calls |-> 0, reads |-> {}, caches |-> {}, resps |-> {},
      pieces |-> {}, evict |-> 0, repeat |-> FALSE, life |-> FALSE, ticks |-> 0,
      closes |-> 0, observe |-> FALSE, writers |-> FALSE, arith |-> TRUE,
      walk |-> FALSE, write |-> FALSE, locks |-> FALSE, n |-> n, unit |-> u] : n \in 0..MaxInt64, u \in 1..MaxInt64}

\* walkChunks over every small blob, region and walkFn.
WalkBlobs ==
    {[size |-> sz, chunkSize |-> c, prefetchChunkSize |-> 0] :
        sz \in 1..MaxBlobSize, c \in 1..3}

WalkEnvs ==
    {[conc |-> FALSE, calls |-> 0, reads |-> {}, caches |-> {}, resps |-> {},
      pieces |-> {}, evict |-> 0, repeat |-> FALSE, life |-> FALSE, ticks |-> 0,
      closes |-> 0, observe |-> FALSE, writers |-> FALSE, arith |-> FALSE,
      walk |-> TRUE, write |-> FALSE, locks |-> FALSE, reg |-> Region(b, e), failAt |-> k] :
        b \in 0..(MaxBlobSize + 1), e \in (-1)..(MaxBlobSize + 2), k \in 0..3}

\* A destination-offset writer over every small dest and offset, fed a stream
\* in Writes of 0, 1 or 2 bytes.
WriteEnvs ==
    {[conc |-> FALSE, calls |-> 0, reads |-> {}, caches |-> {}, resps |-> {},
      pieces |-> {0, 1, 2}, evict |-> 0, repeat |-> FALSE, life |-> FALSE, ticks |-> 0,
      closes |-> 0, observe |-> FALSE, writers |-> FALSE, arith |-> FALSE,
      walk |-> FALSE, write |-> TRUE, locks |-> FALSE, dlen |-> l, destOff |-> d,
      stream |-> 2 * MaxLen + 1] :
        l \in 0..MaxLen, d \in 0..MaxLen}

\* Goroutines in the public methods at once, seen at their mutexes only.
LockPrograms ==
    {CloseLocks, RefreshLocks, CheckLocks, FetchedSizeLocks,
     ReadAtLocks("fetch"), ReadAtLocks("copy"), ReadAtLocks("retry"),
     CacheLocks("fetch"), CacheLocks("copy")}

LockEnvs ==
    {[conc |-> TRUE, calls |-> 0, reads |-> {}, caches |-> {}, resps |-> {},
      pieces |-> {}, evict |-> 0, repeat |-> FALSE, life |-> FALSE, ticks |-> 0,
      closes |-> 0, observe |-> FALSE, writers |-> FALSE, arith |-> FALSE,
      walk |-> FALSE, write |-> FALSE, locks |-> TRUE, progs |-> pr] :
        pr \in [Tasks -> LockPrograms]}

Init ==
    \/ \E b \in ConcBlobs : MakeBlob(b, ConcEnv)
    \/ \E b \in SeqBlobs : MakeBlob(b, SeqEnv)
    \/ \E b \in CheckBlobs : MakeColdBlob(b, CheckEnv)
    \/ \E b \in CloseBlobs : MakeColdBlob(b, CloseEnv)
    \/ \E b \in RetryBlobs : MakeColdBlob(b, RetryEnv)
    \/ \E b \in WriterBlobs : MakeColdBlob(b, WriterEnv)
    \/ \E b \in WriterBlobs, e \in ArithEnvs : MakeColdBlob(b, e)
    \/ \E b \in WalkBlobs, e \in WalkEnvs : MakeColdBlob(b, e)
    \/ \E b \in WriterBlobs, e \in WriteEnvs : MakeColdBlob(b, e)
    \/ \E b \in WriterBlobs, e \in LockEnvs : MakeColdBlob(b, e)

Next ==
    \/ \E c \in env.reads : ReadAt(c[1], c[2])
    \/ \E c \in env.caches : Cache(c[1], c[2])
    \/ \E t \in Tasks : Probe(t)
    \/ \E t \in Tasks : FetchRegions(t)
    \/ \E t \in Tasks : JoinFlight(t)
    \/ \E t \in Tasks : CacheAdd(t)
    \/ \E t \in Tasks, piece \in env.pieces : CacheChunkData(t, piece)
    \/ \E t \in Tasks : FinishFlight(t)
    \/ \E t \in Tasks, piece \in env.pieces :
         \E reg \in task[t].copyTodo : CopyFetchedChunks(t, reg, piece)
    \/ \E id \in DOMAIN cache : Evict(id)
    \/ \E o \in Tasks : Repeat(o)
    \/ Tick
    \/ Close
    \/ Check
    \/ \E t \in Tasks : CheckFinish(t)
    \/ Refresh
    \/ \E t \in Tasks : RefreshSwap(t)
    \/ \E t \in Tasks : RefreshStamp(t)
    \/ SizeCall
    \/ FetchedSizeCall
    \/ Round
    \/ Walk
    \/ \E k \in env.pieces : WriteNext(k)
    \/ \E t \in Tasks : LockStep(t)

Spec == Init /\ [][Next]_vars

\* The fetchRange callers alone: every goroutine that can take a step takes one
\* in the end, every cache and fetcher operation returns, and the clients and
\* the cache backend act as they please.
LiveInit ==
    \/ \E b \in RetryBlobs : MakeColdBlob(b, RetryEnv)
    \/ \E b \in WriterBlobs : MakeColdBlob(b, WriterEnv)

Step(t) ==
    \/ Probe(t)
    \/ FetchRegions(t)
    \/ JoinFlight(t)
    \/ CacheAdd(t)
    \/ \E piece \in env.pieces : CacheChunkData(t, piece)
    \/ FinishFlight(t)
    \/ \E piece \in env.pieces :
         \E reg \in task[t].copyTodo : CopyFetchedChunks(t, reg, piece)

LiveNext ==
    \/ \E c \in env.reads : ReadAt(c[1], c[2])
    \/ \E t \in Tasks : Step(t)
    \/ \E id \in DOMAIN cache : Evict(id)
    \/ \E o \in Tasks : Repeat(o)

LiveSpec == LiveInit /\ [][LiveNext]_vars /\ \A t \in Tasks : WF_vars(Step(t))

\* ------------------------------------------------------------- properties
\* A ReadAt that has returned without error.
ReadOk(tk) == tk.kind = "read" /\ tk.pc = "done" /\ tk.err = Nil

\* The fetch of the call was answered in full.
Answered(tk) == tk.answers \subseteq {"exact", "whole"}

\* C1: the bytes a successful ReadAt leaves in p[0:n] are the blob's bytes at
\* offset .. offset+n-1, whatever the cache held, whoever ran the fetch and
\* whatever shape the answer had.
C1_ReadBytes ==
    \A t \in Tasks :
        ReadOk(task[t]) =>
            \A i \in 1..task[t].n : task[t].p[i] = BlobByte(task[t].off + i - 1)

\* A ReadAt at an offset inside a chunk was served from a whole-blob answer.
C1_Witness ==
    \E t \in Tasks :
        /\ ReadOk(task[t])
        /\ task[t].n >= 2
        /\ task[t].off % blob.chunkSize # 0
        /\ "whole" \in task[t].answers

\* C2: a successful ReadAt returns n = min(len(p), max(0, size - offset)).
C2_ReadCount ==
    \A t \in Tasks :
        ReadOk(task[t]) =>
            task[t].n = Min(task[t].len, Max(0, blob.size - task[t].off))

\* A ReadAt that ran over the end of the blob returned the bytes left.
C2_Witness ==
    \E t \in Tasks :
        /\ ReadOk(task[t])
        /\ task[t].nfetch = 1
        /\ task[t].n > 0
        /\ task[t].n < task[t].len

\* The calls that entered the single-flight group, and their region sets.
Fetchers == {t \in Tasks : task[t].pc # "idle" /\ DOMAIN task[t].allData # {}}

DistinctKeys == {DOMAIN task[t].allData : t \in Fetchers}

RECURSIVE SumFetches(_)
SumFetches(S) ==
    IF S = {} THEN 0
    ELSE LET t == CHOOSE x \in S : TRUE IN task[t].nfetch + SumFetches(S \ {t})

TotalFetches == SumFetches(Tasks)

\* Concurrent calls on a cold cache that keeps its entries, none repeated.
ColdRun == env.conc /\ cache0 = EmptyMap /\ nrepeat = 0 /\ nevict = 0

AllReturned ==
    /\ Cardinality(Calls) = env.calls
    /\ \A t \in Tasks : ~Active(t)

\* The goroutines running fetchRegions inside Do.
InDo(t) == task[t].pc \in {"recv", "finish"}

\* C3 as stated: concurrent calls on a cold cache issue as many fetches as they
\* have distinct region sets, under every interleaving.
C3_FetchPerKey ==
    (ColdRun /\ AllReturned /\ \A t \in Tasks : Answered(task[t])) =>
        TotalFetches = Cardinality(DistinctKeys)

\* What the single-flight group does give: at any moment at most one fetch is
\* in flight per region set, a caller waits only on a fetch in flight for its
\* own region set, and when all calls have returned the fetches number at least
\* the distinct region sets and at most the calls that had regions to fetch.
FetchPerFlight ==
    /\ \A t, u \in Tasks :
          (t # u /\ InDo(t) /\ InDo(u)) =>
              DOMAIN task[t].allData # DOMAIN task[u].allData
    /\ \A t \in Tasks :
          task[t].pc = "wait" =>
              \E u \in Tasks \ {t} :
                  InDo(u) /\ DOMAIN task[u].allData = DOMAIN task[t].allData
    /\ (ColdRun /\ AllReturned) =>
          /\ Cardinality(DistinctKeys) <= TotalFetches
          /\ TotalFetches <= Cardinality(Fetchers)

\* Two calls for one region set were served by a single fetch.
Coalesced ==
    /\ ColdRun
    /\ AllReturned
    /\ Cardinality(Fetchers) = 2
    /\ Cardinality(DistinctKeys) = 1
    /\ TotalFetches = 1
    /\ \A t \in Fetchers : task[t].err = Nil

\* The call returned success having only shared the fetches of others.
SharedOk(tk) == tk.pc = "done" /\ tk.err = Nil /\ tk.nfetch = 0 /\ tk.nflight > 0

\* C4: a caller that shared another caller's successful fetch returns with its
\* destination holding the requested bytes of every region it asked for.
C4_SharedFilled ==
    \A t \in Tasks :
        (task[t].kind = "read" /\ SharedOk(task[t])) =>
            \A chunk \in DOMAIN task[t].allData :
                LET w == task[t].allData[chunk]
                IN  \A j \in 1..w.len :
                        task[t].p[w.base + j] = BlobByte(chunk.b + w.destOff + j - 1)

\* A ReadAt that shares a fetch wants bytes from inside the chunk.
C4_Witness ==
    \E t \in Tasks :
        /\ task[t].kind = "read"
        /\ SharedOk(task[t])
        /\ \E chunk \in DOMAIN task[t].allData :
              task[t].allData[chunk].len > 0 /\ task[t].allData[chunk].destOff > 0

\* The chunks of the grid that overlap [offset, offset+len) within the blob.
Overlapping(offset, len) ==
    {c \in Grid(blob.size, blob.chunkSize) : c.b < offset + len /\ c.e >= offset}

\* C5: after a successful ReadAt with a non-empty buffer on a cache that does not
\* evict, every grid chunk overlapping the read range is committed under
\* genID(chunk) with exactly chunk.size() bytes.
C5_ReadCaches ==
    \A t \in Tasks :
        (ReadOk(task[t]) /\ task[t].len > 0 /\ nevict = 0) =>
            \A c \in Overlapping(task[t].off, task[t].len) :
                /\ CacheHas(cache, genID(fetcher, c))
                /\ Len(cache[genID(fetcher, c)]) = RegSize(c)

\* A ReadAt over two chunks of a cold cache fetched them.
C5_Witness ==
    \E t \in Tasks :
        /\ ReadOk(task[t])
        /\ nevict = 0
        /\ cache0 = EmptyMap
        /\ task[t].nfetch = 1
        /\ Cardinality(Overlapping(task[t].off, task[t].len)) = 2

\* The chunks ReadAt probes, and so has committed when it succeeds.
ReadAtChunks(offset, len) ==
    IF len = 0 \/ offset > blob.size THEN {}
    ELSE LET w == walkChunks(alignedRegion(offset, len, blob.chunkSize),
                             blob.size, blob.chunkSize)
         IN  {w.chunks[i] : i \in 1..Len(w.chunks)}

\* The entries a successful ReadAt(offset, len) leaves from the initial cache.
AfterReadAt(offset, len) ==
    DOMAIN cache0 \cup {genID(fetcher, c) : c \in ReadAtChunks(offset, len)}

\* A lone call of the given kind succeeded, served the exact ranges it asked for.
LoneExact(o, kind) ==
    /\ ~env.conc
    /\ nrepeat = 0
    /\ task[o].owner = o
    /\ task[o].kind = kind
    /\ CallOk(o)
    /\ \A t \in TasksOf(o) : task[t].answers \subseteq {"exact"}

\* A successful ReadAt leaves exactly the entries of AfterReadAt.
ReadAtLeaves ==
    \A o \in Tasks :
        LoneExact(o, "read") =>
            DOMAIN cache = AfterReadAt(task[o].callOff, task[o].callLen)

\* C6: a successful Cache(offset, size) leaves committed exactly the chunks a
\* successful ReadAt of a size-byte buffer at offset leaves from the same
\* initial cache, on the single path and on the fan-out path.
C6_CacheAsReadAt ==
    \A o \in Tasks :
        LoneExact(o, "cache") =>
            DOMAIN cache = AfterReadAt(task[o].callOff, task[o].callLen)

\* C7: the regions given to fetch never hold a chunk that was committed in the
\* cache when the operation probed it.
C7_FetchMissesOnly ==
    \A t \in Tasks : task[t].asked \cap task[t].hits = {}

\* A call found one chunk in the cache and fetched another.
C7_Witness ==
    \E t \in Tasks :
        /\ task[t].pc = "done"
        /\ task[t].hits # {}
        /\ task[t].asked # {}
        /\ task[t].err = Nil

\* C8: with the cache keeping its entries, a successful ReadAt or Cache made
\* once more succeeds without entering a fetch, adds nothing to the fetched
\* regions and, for ReadAt, returns the same bytes.
C8_RepeatIsFree ==
    \A t \in Tasks :
        (task[t].rep /\ task[t].pc = "done" /\ nevict = 0) =>
            /\ task[t].err = Nil
            /\ task[t].nfetch = 0
            /\ task[t].nflight = 0
            /\ task[t].nadd = 0
            /\ ~env.conc => FetchedSize = task[t].fs0
            /\ task[t].kind = "read" =>
                  task[t].n = task[t].prevN /\ task[t].p = task[t].prevP

\* A ReadAt that had to fetch was made once more.
C8_Witness ==
    \E t \in Tasks :
        /\ task[t].rep
        /\ task[t].pc = "done"
        /\ task[t].kind = "read"
        /\ nevict = 0
        /\ task[t].prevN > 0
        /\ task[t].fs0 > 0

\* C9: every committed entry is a chunk of the grid with exactly chunk.size()
\* bytes of it, and a writer is aborted only short of them: no call, failed or
\* not, leaves a partly written chunk committed.
C9_WholeEntries ==
    /\ \A id \in DOMAIN cache :
          /\ Region(id[2], id[3]) \in Grid(blob.size, blob.chunkSize)
          /\ cache[id] = BlobBytes(Region(id[2], id[3]))
    /\ \A t \in Tasks : \A a \in task[t].aborts : a.got < RegSize(a.chunk)

\* A call failed in the middle of a chunk, whose entry is not in the cache.
C9_Witness ==
    \E t \in Tasks :
        /\ task[t].pc = "done"
        /\ task[t].err # Nil
        /\ \E a \in task[t].aborts :
              a.got > 0 /\ ~CacheHas(cache, genID(fetcher, a.chunk))

\* C10: a ReadAt whose fetch failed or whose answer was cut short returns an
\* error; a ReadAt that returns an error returns 0 bytes and an error other
\* than io.EOF; and no ReadAt issues a second fetch.
C10_FailOnce ==
    \A t \in Tasks :
        (task[t].kind = "read" /\ task[t].pc = "done") =>
            /\ (task[t].answers \cap {"fail", "short"} # {}) => task[t].err # Nil
            /\ task[t].err # Nil => (task[t].n = 0 /\ task[t].err # EOF)
            /\ task[t].nfetch <= 1

\* A ReadAt failed on an answer that ended inside a chunk.
C10_Witness ==
    \E t \in Tasks :
        /\ task[t].kind = "read"
        /\ task[t].pc = "done"
        /\ "short" \in task[t].answers
        /\ task[t].aborts # {}
        /\ task[t].err # Nil


\* A call that found the blob closed when it began.
FoundClosed(t) == task[t].pc # "idle" /\ task[t].sawClosed

\* C11: once Close has returned, every later ReadAt, Cache, Check and Refresh
\* returns the error "blob is already closed" (ReadAt with no bytes) and has
\* touched neither the cache nor the fetcher nor the resolver.
C11_ClosedRefuses ==
    \A t \in Tasks :
        FoundClosed(t) =>
            /\ task[t].pc = "done"
            /\ task[t].err = ErrClosed
            /\ task[t].n = 0
            /\ task[t].ncache = 0 /\ task[t].nadd = 0
            /\ task[t].nflight = 0 /\ task[t].nfetch = 0
            /\ ~task[t].probed
            /\ ~task[t].resolved

\* Two calls of different operations were made on the closed blob.
C11_Witness ==
    /\ closed
    /\ \E t, u \in Tasks :
        /\ FoundClosed(t) /\ task[t].kind \in {"read", "cache"}
        /\ FoundClosed(u) /\ task[u].kind \in {"check", "refresh"}

\* C12: however often Close is called, the cache is closed exactly once: the
\* first Close returns what the cache's Close returned, every later Close
\* returns nil and leaves the cache alone.
C12_CloseOnce ==
    /\ Len(hist.cacheCloses) <= 1
    /\ (closed <=> hist.closes # <<>>)
    /\ (hist.closes # <<>>) =>
        /\ Len(hist.cacheCloses) = 1
        /\ hist.closes[1] = hist.cacheCloses[1]
        /\ \A i \in 2..Len(hist.closes) : hist.closes[i] = Nil

\* Close was called again after a Close whose cache reported an error.
C12_Witness ==
    /\ Len(hist.closes) >= 2
    /\ hist.closes[1] = ErrCacheClose

\* A Check that found the blob open.
OpenCheck(t) == task[t].pc # "idle" /\ task[t].kind = "check" /\ ~task[t].sawClosed

\* C13: over any interleaving of Check calls on the open blob, two probes are
\* never started less than checkInterval apart.
C13_ProbesApart ==
    \A t, u \in Tasks :
        (t # u /\ OpenCheck(t) /\ OpenCheck(u) /\ task[t].probed /\ task[u].probed
              /\ task[t].probeAt <= task[u].probeAt) =>
            task[u].probeAt - task[t].probeAt >= blob.checkInterval

\* Two Checks probe at the same time and both probes succeed.
ProbedTwice ==
    \E t, u \in Tasks :
        /\ t # u /\ OpenCheck(t) /\ OpenCheck(u)
        /\ task[t].pc = "done" /\ task[u].pc = "done"
        /\ task[t].answer = "ok" /\ task[u].answer = "ok"
        /\ task[t].probeAt = task[u].probeAt
        /\ blob.checkInterval > 0

\* C14: a Check that finds now - lastCheck < checkInterval on the open blob
\* returns nil without probing and leaves lastCheck as it was.
C14_FreshSkips ==
    \A t \in Tasks :
        (OpenCheck(t) /\ task[t].now0 - task[t].lc0 < blob.checkInterval) =>
            /\ task[t].pc = "done"
            /\ task[t].err = Nil
            /\ ~task[t].probed
            /\ task[t].lcAfter = task[t].lcBefore
            /\ task[t].lcAfter = task[t].lc0

\* A Check skipped its probe after the clock and lastCheck had both moved on.
C14_Witness ==
    \E t \in Tasks :
        /\ OpenCheck(t) /\ task[t].pc = "done" /\ ~task[t].probed
        /\ task[t].lc0 > 0
        /\ task[t].now0 > task[t].lc0

\* C15: a Check that finds the interval expired and whose probe succeeds
\* returns nil and sets lastCheck to the time it captured at its start; one
\* whose probe fails returns the probe's error and leaves lastCheck as it was,
\* so that a later Check that still finds that lastCheck probes again.
C15_ProbeStamps ==
    \A t \in Tasks :
        (OpenCheck(t) /\ task[t].pc = "done" /\ task[t].probed) =>
            /\ ~(task[t].now0 - task[t].lc0 < blob.checkInterval)
            /\ task[t].answer = "ok" =>
                /\ task[t].err = Nil
                /\ task[t].lcAfter = task[t].now0
            /\ task[t].answer = "fail" =>
                /\ task[t].err = ErrCheck
                /\ task[t].lcAfter = task[t].lcBefore
                /\ \A u \in Tasks :
                    (OpenCheck(u) /\ task[u].lc0 = task[t].lcAfter
                          /\ task[t].lcAfter = task[t].lc0
                          /\ task[u].now0 >= task[t].now0) => task[u].probed

\* A probe that lasted a tick succeeded, and a Check probed again after a
\* failed one.
C15_Witness ==
    \E t, u \in Tasks :
        /\ OpenCheck(t) /\ task[t].pc = "done" /\ task[t].answer = "ok"
        /\ task[t].now0 > 0 /\ lastCheck = task[t].now0 /\ now > task[t].now0
        /\ OpenCheck(u) /\ task[u].pc = "done" /\ task[u].answer = "fail"

\* A Refresh that found the blob open and has returned.
RefreshDone(t) ==
    task[t].pc = "done" /\ task[t].kind = "refresh" /\ ~task[t].sawClosed

\* C16: a Refresh whose resolver fails, or reports a size other than the
\* blob's, returns an error and leaves the fetcher and lastCheck as they were.
C16_FailedRefresh ==
    \A t \in Tasks :
        RefreshDone(t) =>
            /\ task[t].answer = "fail" => task[t].err = ErrResolve
            /\ task[t].answer = "mismatch" => task[t].err = ErrSize
            /\ task[t].err # Nil =>
                /\ task[t].frAfter = task[t].frBefore
                /\ task[t].lcAfter = task[t].lcBefore

\* Both kinds of failure happened after the clock had moved.
C16_Witness ==
    /\ now > 0
    /\ \E t, u \in Tasks :
        /\ RefreshDone(t) /\ task[t].answer = "fail"
        /\ RefreshDone(u) /\ task[u].answer = "mismatch"

\* C17: every snapshot of the fetcher that ReadAt, Cache, Check or
\* fetchRegions takes is the fetcher installed last, so after a successful
\* Refresh it is the new one; a successful Refresh has set lastCheck to the
\* time of its return, not earlier than before; and a fetchRegions works to
\* its end with the snapshot it took, whatever is installed meanwhile.
C17_RefreshSwaps ==
    /\ fetcher = hist.installed
    /\ \A t \in Tasks :
        /\ task[t].fr = task[t].frSeen
        /\ task[t].frFetch = task[t].frFetchSeen
        /\ (RefreshDone(t) /\ task[t].err = Nil) =>
            /\ task[t].answer = "ok"
            /\ task[t].frAfter = Fetcher(1 + t)
            /\ task[t].lcAfter = task[t].now0
            /\ task[t].lcAfter >= task[t].lcBefore

\* A ReadAt fetched its bytes with the fetcher a Refresh replaced meanwhile.
C17_Witness ==
    \E t, u \in Tasks :
        /\ RefreshDone(t) /\ task[t].err = Nil /\ task[t].now0 > 0
        /\ task[u].kind = "read" /\ task[u].pc = "done" /\ task[u].err = Nil
        /\ task[u].nadd > 0
        /\ task[u].frFetch = Fetcher(1)
        /\ fetcher = Fetcher(1 + t)

\* C18: Size returns the size the blob was constructed with, after any calls,
\* successful and failed Refreshes included.
C18_SizeFixed ==
    /\ Size = hist.size0
    /\ \A sz \in hist.sizes : sz = hist.size0

\* Size was asked after a Refresh installed a fetcher and another was refused
\* for its size.
C18_Witness ==
    /\ hist.sizes # {}
    /\ \E t, u \in Tasks :
        /\ RefreshDone(t) /\ task[t].answer = "ok"
        /\ RefreshDone(u) /\ task[u].answer = "mismatch"

\* C19: over any interleaving of ReadAt, Cache, Check, Refresh and Close, the
\* values successive FetchedSize calls return never decrease.
C19_FetchedSizeGrows ==
    /\ hist.fsPrev <= hist.fsRet
    /\ hist.fsRet <= FetchedSize

\* FetchedSize returned more than the time before, and the cache has dropped
\* an entry since.
C19_Witness ==
    /\ 0 < hist.fsPrev
    /\ hist.fsPrev < hist.fsRet
    /\ nevict > 0

\* C20: ReadAt on the open blob with a non-empty buffer at offset = size
\* returns (0, nil), whatever the chunk size, the cache and the fetcher.
C20_ReadAtEnd ==
    \A t \in Tasks :
        (task[t].kind = "read" /\ task[t].pc = "done" /\ ~task[t].sawClosed
              /\ task[t].callLen > 0 /\ task[t].callOff = blob.size) =>
            /\ task[t].n = 0
            /\ task[t].err = Nil

\* What ReadAt at offset = size does: it reads nothing when the size is a
\* multiple of the chunk size, and else asks for the last chunk.
ReadAtEndWalks ==
    \A t \in Tasks :
        (task[t].kind = "read" /\ task[t].pc = "done" /\ ~task[t].sawClosed
              /\ task[t].callLen > 0 /\ task[t].callOff = blob.size) =>
            /\ task[t].n = 0
            /\ GoMod(blob.size, blob.chunkSize) = 0 =>
                /\ task[t].err = Nil /\ task[t].ncache = 0 /\ task[t].nfetch = 0
            /\ GoMod(blob.size, blob.chunkSize) # 0 =>
                /\ task[t].ncache > 0
                /\ task[t].err = Nil \/ task[t].nfetch > 0

\* C21: ReadAt on the open blob with an empty buffer, or with offset > size,
\* returns (0, nil) and has called neither the cache nor the fetcher.
C21_NothingToRead ==
    \A t \in Tasks :
        (task[t].kind = "read" /\ task[t].pc # "idle" /\ ~task[t].sawClosed
              /\ (task[t].callLen = 0 \/ task[t].callOff > blob.size)) =>
            /\ task[t].pc = "done"
            /\ task[t].n = 0
            /\ task[t].err = Nil
            /\ task[t].ncache = 0 /\ task[t].nadd = 0
            /\ task[t].nflight = 0 /\ task[t].nfetch = 0
            /\ task[t].allData = EmptyMap

\* ReadAt returned for an empty buffer inside the blob while the cache was cold.
C21_Witness ==
    \E t \in Tasks :
        /\ task[t].kind = "read" /\ task[t].pc = "done"
        /\ task[t].callLen = 0 /\ task[t].callOff < blob.size
        /\ cache = EmptyMap

\* ReadAt returned for a buffer that begins past the end of the blob.
PastTheEnd ==
    \E t \in Tasks :
        /\ task[t].kind = "read" /\ task[t].pc = "done"
        /\ task[t].callLen > 0 /\ task[t].callOff > blob.size

\* C22: one ReadAt or cacheAt, that is one top-level fetchRange, enters the
\* single-flight group at most twice.
C22_RetryOnce ==
    \A t \in Tasks : task[t].nflight <= 2

\* What bounds the entries of one fetchRange: each one after the first follows
\* a shared result whose re-read of the cache failed, so the backend has
\* dropped at least one entry per retry.
RetryPerEviction ==
    \A t \in Tasks : task[t].nflight <= 1 + nevict

\* A caller whose last entry into the single-flight group joined a flight in
\* progress, and got an error from it.
FailedWaiter(t) ==
    task[t].pc # "idle" /\ task[t].waited /\ task[t].doErr # Nil

\* C23: when the function run by the primary returns an error, every caller
\* that waited on the key returns that error, and has neither fetched nor read
\* the cache back nor entered the group again because of it.
C23_WaitersFail ==
    \A t \in Tasks :
        /\ FailedWaiter(t) =>
            /\ task[t].pc = "done"
            /\ task[t].err = task[t].doErr
            /\ task[t].n = 0
            /\ task[t].nfetch = 0
            /\ task[t].copyTodo = {}
            /\ ~task[t].viaShared
        /\ task[t].pc = "wait" => task[t].nfetch = 0
        /\ (task[t].pc \in {"copy", "flight", "wait"} /\ task[t].nflight > 0
              /\ ~(task[t].pc = "wait" /\ task[t].nflight = 1)) =>
            task[t].doErr = Nil

\* A waiter and the primary of its flight both returned the error of a fetch
\* that failed.
C23_Witness ==
    \E t, u \in Tasks :
        /\ t # u
        /\ task[t].pc = "done" /\ ~task[t].waited /\ task[t].nfetch = 1
        /\ task[t].err # Nil
        /\ FailedWaiter(u) /\ task[u].nflight = 1
        /\ task[u].err = task[t].err
        /\ task[u].key = task[t].key

\* C24: no call into the cache, the fetcher or the resolver is made with one
\* of the blob's mutexes held.
C24_NoLockAcrossIO ==
    hist.locked = {}

\* The two places that do hold a mutex across such a call, and no other:
\* Close holds closedMu over the cache's Close, and copyFetchedChunks holds
\* fetchedRegionCopyMu while it copies from the cache reader.
LockedIO ==
    hist.locked \subseteq {[io |-> "cacheClose", mu |-> "closedMu"],
                          [io |-> "readerCopy", mu |-> "fetchedRegionCopyMu"]}

\* A shared caller has copied its bytes out of the cache.
CopiedUnderLock ==
    [io |-> "readerCopy", mu |-> "fetchedRegionCopyMu"] \in hist.locked

\* C25: at no time are two cache writers open for the same chunk id.
C25_SingleWriter ==
    \A t, u \in Tasks :
        (t # u /\ task[t].cw # <<>> /\ task[u].cw # <<>>) => task[t].cw # task[u].cw

\* What the single-flight group does give: the callers that hold a writer for
\* the same chunk at the same time run flights of different keys.
WritersOfOtherKeys ==
    \A t, u \in Tasks :
        (t # u /\ task[t].cw # <<>> /\ task[u].cw # <<>>) => task[t].key # task[u].key

\* C26: for n >= 0 and unit > 0, floor(n, unit) is the largest multiple of
\* unit that is <= n, ceil(n, unit) is a multiple of unit with
\* n + 1 <= ceil(n, unit) <= n + unit, and floor(ceil(n, unit), unit) is
\* ceil(n, unit).
C26_FloorCeil ==
    hist.rounded =>
        /\ hist.floorN % env.unit = 0
        /\ hist.floorN <= env.n /\ env.n < hist.floorN + env.unit
        /\ hist.ceilN % env.unit = 0
        /\ env.n + 1 <= hist.ceilN /\ hist.ceilN <= env.n + env.unit
        /\ hist.floorCeilN = hist.ceilN

\* What holds of floor and ceil: all of it while the next multiple of unit
\* after n is an int64, and of floor always.
FloorCeilInRange ==
    hist.rounded =>
        /\ hist.floorN % env.unit = 0
        /\ hist.floorN <= env.n /\ env.n < hist.floorN + env.unit
        /\ hist.floorN + env.unit <= MaxInt64 =>
            /\ hist.ceilN = hist.floorN + env.unit
            /\ hist.floorCeilN = hist.ceilN
        /\ hist.floorN + env.unit > MaxInt64 => hist.ceilN < 0

\* The chunks of the claim: {i, min(i + chunkSize - 1, size - 1)} for
\* i = b, b + chunkSize, ... while i <= e and i < size.
ClaimedChunks(reg, size, chunkSize) ==
    LET last == Min(reg.e, size - 1)
        k    == Cardinality({j \in 0..(MaxBlobSize + 2) : reg.b + j * chunkSize <= last})
    IN  [j \in 1..k |->
            Region(reg.b + (j - 1) * chunkSize,
                   Min(reg.b + (j - 1) * chunkSize + chunkSize - 1, size - 1))]

\* C27: walkChunks on a region whose start is a multiple of the chunk size
\* calls walkFn on the claimed chunks in ascending order, up to and including
\* the first call that fails, and returns that call's error, or nil if none
\* fails; on any other region it returns an error and calls nothing.  Every
\* chunk handed to walkFn has between 1 and chunkSize bytes and ends before
\* the end of the blob.
C27_WalkChunks ==
    hist.walked =>
        LET want == ClaimedChunks(env.reg, blob.size, blob.chunkSize)
            fails == env.failAt > 0 /\ env.failAt <= Len(want)
        IN  /\ env.reg.b % blob.chunkSize # 0 =>
                /\ hist.walkErr = ErrAlign
                /\ hist.called = <<>>
            /\ env.reg.b % blob.chunkSize = 0 =>
                /\ hist.called = SubSeq(want, 1, IF fails THEN env.failAt ELSE Len(want))
                /\ hist.walkErr = IF fails THEN ErrWalkFn ELSE Nil
            /\ \A j \in 1..Len(hist.called) :
                /\ 1 <= RegSize(hist.called[j])
                /\ RegSize(hist.called[j]) <= blob.chunkSize
                /\ hist.called[j].e <= blob.size - 1
                /\ j > 1 => hist.called[j].b > hist.called[j - 1].b

\* A walk over a region that reaches past the end of a blob whose size is no
\* multiple of the chunk size was stopped by walkFn's second call.
C27_Witness ==
    /\ hist.walked
    /\ hist.walkErr = ErrWalkFn
    /\ Len(hist.called) = 2
    /\ blob.size % blob.chunkSize # 0
    /\ env.reg.e >= blob.size

\* A walk that reached the clamped last chunk of the blob.
WalkedToTheEnd ==
    /\ hist.walked /\ hist.walkErr = Nil
    /\ Len(hist.called) >= 2
    /\ RegSize(hist.called[Len(hist.called)]) < blob.chunkSize

\* A caller back from a fetchRegions of its own.
RanFetch(t) ==
    task[t].pc = "done" /\ ~task[t].waited /\ task[t].nfetch > 0

\* The regions a caller asked for that its fetchRegions did not commit.
Uncommitted(t) ==
    {reg \in task[t].asked : reg \notin DOMAIN task[t].fetched \/ ~task[t].fetched[reg]}

\* C28: when fetchRegions ends with a requested region not received and
\* committed, it returns an error, and so does the ReadAt or Cache that ran
\* it, also when the answer ended regularly and every chunk that did arrive
\* was committed.
C28_MissingRegion ==
    \A t \in Tasks :
        (RanFetch(t) /\ Uncommitted(t) # {}) =>
            /\ task[t].err # Nil
            /\ task[t].n = 0
            /\ task[t].answers = {"missing"} => task[t].err = ErrUnfetched

\* The server left out one of two regions; the one it sent is in the cache.
C28_Witness ==
    \E t \in Tasks :
        /\ RanFetch(t) /\ task[t].answers = {"missing"}
        /\ task[t].err = ErrUnfetched
        /\ task[t].aborts = {}
        /\ \E c \in task[t].asked :
            /\ c \notin Uncommitted(t)
            /\ CacheHas(cache, genID(task[t].frFetch, c))
        /\ Uncommitted(t) # {}

\* C29: after any sequence of Writes to a destination-offset writer, whose
\* bytes together are the stream s: every Write returned (len(p), nil) and
\* indexed inside dest and p, the cursor is len(s), dest[i] is s[destOff + i]
\* for every i with destOff + i < len(s), and every other byte of dest, and
\* the bytes around dest, are as they were.
C29_BytesWriter ==
    (env.write /\ hist.wp # <<>>) =>
        /\ hist.wok
        /\ hist.w.current = hist.ws
        /\ Len(hist.wp) = env.dlen + 2
        /\ \A i \in 0..(env.dlen - 1) :
            hist.wp[i + 2] = IF env.destOff + i < hist.ws
                             THEN BlobByte(env.destOff + i) ELSE NoByte
        /\ hist.wp[1] = NoByte
        /\ hist.wp[env.dlen + 2] = NoByte

\* The stream began before dest's window, filled it in pieces and went on
\* past its end.
C29_Witness ==
    /\ env.write /\ hist.wp # <<>>
    /\ env.destOff = 1 /\ env.dlen = 3
    /\ hist.ws > env.destOff + env.dlen + 1
    /\ hist.wp[2] = BlobByte(1) /\ hist.wp[4] = BlobByte(3)

\* C30: a ReadAt works with one fetcher throughout: the fetcher its
\* fetchRegions fetches with, and writes the cache under, is the one ReadAt
\* took before probing the cache, whatever Refresh installs meanwhile.
C30_OneSnapshot ==
    \A t \in Tasks :
        (task[t].kind = "read" /\ task[t].nfetch > 0) =>
            task[t].frFetch = task[t].fr

\* What holds instead: each stage takes the fetcher installed at the moment it
\* begins, and the chunk ids of the two snapshots are the same.
SnapshotPerStage ==
    \A t \in Tasks :
        (task[t].kind = "read" /\ task[t].nfetch > 0) =>
            /\ task[t].fr = task[t].frSeen
            /\ task[t].frFetch = task[t].frFetchSeen
            /\ \A c \in Grid(blob.size, blob.chunkSize) :
                genID(task[t].frFetch, c) = genID(task[t].fr, c)

\* A ReadAt probed the cache with one fetcher and fetched with the next.
SwappedUnderReadAt ==
    \E t \in Tasks :
        /\ task[t].kind = "read" /\ task[t].pc = "done" /\ task[t].err = Nil
        /\ task[t].nadd > 0
        /\ task[t].fr = Fetcher(1) /\ task[t].frFetch # Fetcher(1)

\* How many fetchRange calls have entered the single-flight group under a key.
EnteredWith(key) ==
    LET keys == [t \in Tasks |-> Earlier(task[t])]
        RECURSIVE Count(_)
        Count(S) ==
            IF S = {} THEN 0
            ELSE LET t == CHOOSE x \in S : TRUE
                 IN  Cardinality({i \in 1..Len(keys[t]) : keys[t][i] = key})
                     + Count(S \ {t})
    IN  Count(Tasks)

\* A fetchRange that ran fetchRegions itself does not enter the group again,
\* and a fetchRange has entered the group at most as many times as there are
\* fetchRange calls that entered it under the same key.
RetryPerCaller ==
    \A t \in Tasks :
        /\ task[t].nflight > 0 => task[t].nflight <= EnteredWith(task[t].key)
        /\ task[t].nfetch > 0 =>
            task[t].nfetch = 1 /\ task[t].pc \in {"recv", "finish", "done"}

\* C31: with finitely many callers and cache and fetcher operations that
\* return, every fetchRange returns; the one that ran fetchRegions never
\* retries, and none enters the single-flight group more often than there are
\* callers with its key.
C31_FetchRangeReturns ==
    /\ []RetryPerCaller
    /\ \A t \in Tasks : (task[t].pc = "flight") ~> (task[t].pc = "done")

\* A waiter entered the group as often as there are callers with its key,
\* fetched in the end and returned, while the backend dropped one entry more.
C31_Witness ==
    \E t \in Tasks :
        /\ task[t].pc = "done" /\ task[t].err = Nil
        /\ task[t].nflight = 2 /\ EnteredWith(task[t].key) = 2
        /\ task[t].nfetch = 1
        /\ nevict = 2

\* C32: lastCheck never decreases: whatever the interleaving of Check, Refresh
\* and fetchRegions, each write stores a time not earlier than the one it
\* replaces.
C32_LastCheckGrows == [][lastCheck' >= lastCheck]_vars

\* What holds instead: lastCheck is never later than the clock, and the only
\* write that sets it back is a successful Check storing the time it took
\* before its probe.
LastCheckSetBackByCheck ==
    [][/\ lastCheck' <= now'
       /\ lastCheck' < lastCheck =>
            \E t \in Tasks : /\ task[t].kind = "check" /\ task[t].pc = "probing"
                             /\ task'[t].pc = "done" /\ task'[t].answer = "ok"
                             /\ lastCheck' = task[t].now0]_vars

\* A Check that probed successfully has left lastCheck earlier than it found it.
CheckSetBack ==
    \E t \in Tasks :
        /\ task[t].kind = "check" /\ task[t].pc = "done" /\ task[t].err = Nil
        /\ task[t].probed
        /\ task[t].lcAfter < task[t].lcBefore

\* A goroutine still in its method.
InMethod(t) == hist.lkpc[t] <= Len(env.progs[t])

\* A goroutine at a Lock of a mutex that is held.
Blocked(t) ==
    /\ InMethod(t)
    /\ env.progs[t][hist.lkpc[t]].op = "lock"
    /\ hist.owner[env.progs[t][hist.lkpc[t]].mu] # 0

\* C33: no goroutine locks one of the blob's mutexes while it holds another,
\* so that whatever methods run at once, and however they interleave, some
\* goroutine still in its method can always go on.
C33_NoNestedLocks ==
    env.locks =>
        /\ ~hist.nested
        /\ \A t \in Tasks : Cardinality({m \in Mutexes : hist.owner[m] = t}) <= 1
        /\ (\E t \in Tasks : InMethod(t)) => \E t \in Tasks : InMethod(t) /\ ~Blocked(t)

\* A waiter copies a chunk out of the cache with fetchedRegionCopyMu held
\* while another waiter stands at the same Lock.
C33_Witness ==
    /\ env.locks
    /\ \E t, u \in Tasks :
        /\ hist.owner["fetchedRegionCopyMu"] = t
        /\ env.progs[t][hist.lkpc[t]] = LockedCall
        /\ Blocked(u)
        /\ env.progs[u][hist.lkpc[u]].mu = "fetchedRegionCopyMu"

============================================================================
